---- MODULE Spec2Model ----
(***************************************************************************)
(* purecode: the line classifiers (src/src/classifier.rs), the language   *)
(* resolver (src/src/language.rs), the unified-diff scanner               *)
(* (src/src/parser.rs) and the snapshot scanner (src/src/files.rs).       *)
(*                                                                         *)
(* Lines and paths are TLA+ strings; Len, \o and SubSeq act on them        *)
(* character by character, so every str method of the source is computed  *)
(* on the characters of the line.  Option<usize> is an integer, None = -1. *)
(***************************************************************************)
EXTENDS Integers, Sequences, FiniteSets, TLC

VARIABLES
    mode,                    \* "classify" | "diff" | "snapshot": what the caller runs
    pc,                      \* position of the running function
    n,                       \* number of reads made so far (lines, files opened)
    line,                    \* the line of the current call / loop iteration
    verdict,                 \* what classify returned for it ("None": not classified)
    pre,                     \* the classifier as it was before that line
    ev,                      \* what the iteration did with the accumulator
    classifier,              \* the active classifier
    current_file_stats,      \* Option<FileStats>: <<>> or <<fs>>
    is_binary_diff,
    context_warning_printed,
    warnings,                \* per parse_diff call so far, the warnings it wrote to stderr
    stats,                   \* the output Vec<FileStats>
    file,                    \* process_file's frame: <<>> or <<[path, language, lang_stats]>>
    entry,                   \* the file system entry analyze_files is at
    args,                    \* main's active_config: the thresholds and warn_only
    script,                  \* the content of a reader whose lines are known in advance
    verdicts                 \* the verdicts a caller collected, in call order

vars == <<mode, pc, n, line, verdict, pre, ev, classifier, current_file_stats,
          is_binary_diff, context_warning_printed, warnings, stats, file, entry, args, script, verdicts>>

----------------------------------------------------------------------------
(* str methods *)

IsWhitespace(c) ==
    c \in {" ", "\t"}

RECURSIVE TrimStart(_)
TrimStart(s) ==
    IF Len(s) > 0 /\ IsWhitespace(SubSeq(s, 1, 1))
    THEN TrimStart(SubSeq(s, 2, Len(s)))
    ELSE s

RECURSIVE TrimEnd(_)
TrimEnd(s) ==
    IF Len(s) > 0 /\ IsWhitespace(SubSeq(s, Len(s), Len(s)))
    THEN TrimEnd(SubSeq(s, 1, Len(s) - 1))
    ELSE s

Trim(s) ==
    TrimEnd(TrimStart(s))

IsEmpty(s) ==
    Len(s) = 0

StartsWith(s, p) ==
    Len(s) >= Len(p) /\ SubSeq(s, 1, Len(p)) = p

\* s.find(p) from byte offset i on: the offset of the first match, or -1.
RECURSIVE FindFrom(_, _, _)
FindFrom(s, p, i) ==
    IF i + Len(p) > Len(s) THEN -1
    ELSE IF SubSeq(s, i + 1, i + Len(p)) = p THEN i
    ELSE FindFrom(s, p, i + 1)

Find(s, p) ==
    FindFrom(s, p, 0)

Contains(s, p) ==
    Find(s, p) # -1

\* s[i..] and s[..i]
SliceFrom(s, i) ==
    SubSeq(s, i + 1, Len(s))

SliceTo(s, i) ==
    SubSeq(s, 1, i)

\* s.matches(p).count(): matches are found left to right and do not overlap.
RECURSIVE MatchesCount(_, _)
MatchesCount(s, p) ==
    LET i == Find(s, p) IN
    IF i = -1 THEN 0
    ELSE 1 + MatchesCount(SliceFrom(s, i + Len(p)), p)

\* s.split_whitespace().count(): the number of maximal runs of non-whitespace.
RECURSIVE CountWordsFrom(_, _)
CountWordsFrom(s, inWord) ==
    IF Len(s) = 0 THEN 0
    ELSE LET ws == IsWhitespace(SubSeq(s, 1, 1)) IN
         (IF ~ws /\ ~inWord THEN 1 ELSE 0) + CountWordsFrom(SubSeq(s, 2, Len(s)), ~ws)

count_words(s) ==
    CountWordsFrom(s, FALSE)

----------------------------------------------------------------------------
(* classifier.rs *)

LineType == {"Pure", "Comment", "Docstring", "Blank"}

TripleDouble == "\"\"\""
TripleSingle == "'''"

DefaultClassifier == [kind |-> "Default"]
ShellClassifier == [kind |-> "Shell"]
PythonClassifier_new == [kind |-> "Python", in_triple_double |-> FALSE, in_triple_single |-> FALSE]
CStyleClassifier_new == [kind |-> "CStyle", in_block |-> FALSE]
HtmlClassifier_new == [kind |-> "Html", in_comment |-> FALSE]
RubyClassifier_new == [kind |-> "Ruby", in_block |-> FALSE]

\* The result of one classify call: the verdict and the classifier afterwards.
Ret(v, c) ==
    [verdict |-> v, classifier |-> c]

\* &s[lo..hi] is in range; outside it the slice expression panics.
InRange(s, lo, hi) ==
    0 <= lo /\ lo <= hi /\ hi <= Len(s)

\* classify does not return: a slice of the line was out of range.
Panicked(c) ==
    Ret("Panic", c)

DefaultClassify(c, l) ==
    IF IsEmpty(Trim(l)) THEN Ret("Blank", c) ELSE Ret("Pure", c)

PythonInTripleDouble_NeverCloses(c, trimmed) ==
    Ret("Docstring", c)

PythonInTripleDouble_AnyMarkerCloses(c, trimmed) ==
    IF Contains(trimmed, TripleDouble) \/ Contains(trimmed, TripleSingle)
    THEN Ret("Docstring", [c EXCEPT !.in_triple_double = FALSE])
    ELSE Ret("Docstring", c)

\* classify, lines 55-60 and 61-66: a triple-quote region is open.
PythonInTripleDouble(c, trimmed) ==
    IF Contains(trimmed, TripleDouble)
    THEN Ret("Docstring", [c EXCEPT !.in_triple_double = FALSE])
    ELSE Ret("Docstring", c)

PythonInTripleSingle(c, trimmed) ==
    IF Contains(trimmed, TripleSingle)
    THEN Ret("Docstring", [c EXCEPT !.in_triple_single = FALSE])
    ELSE Ret("Docstring", c)

PythonOpenDouble_AlwaysOpens(c, l) ==
    Ret("Docstring", [c EXCEPT !.in_triple_double = TRUE])

\* classify, lines 74-84 and 86-94: the trimmed line starts with the marker;
\* the marker is counted on the raw line.
PythonOpenDouble(c, l) ==
    IF MatchesCount(l, TripleDouble) >= 2
    THEN Ret("Docstring", c)
    ELSE Ret("Docstring", [c EXCEPT !.in_triple_double = TRUE])

PythonOpenSingle(c, l) ==
    IF MatchesCount(l, TripleSingle) >= 2
    THEN Ret("Docstring", c)
    ELSE Ret("Docstring", [c EXCEPT !.in_triple_single = TRUE])

PythonClassify_SingleOpensInsideDouble(c, l) ==
    LET trimmed == Trim(l) IN
    IF IsEmpty(trimmed) THEN Ret("Blank", c)
    ELSE IF c.in_triple_single THEN PythonInTripleSingle(c, trimmed)
    ELSE IF StartsWith(trimmed, TripleSingle) THEN PythonOpenSingle(c, l)
    ELSE IF c.in_triple_double THEN PythonInTripleDouble(c, trimmed)
    ELSE IF StartsWith(trimmed, "#") THEN Ret("Comment", c)
    ELSE IF StartsWith(trimmed, TripleDouble) THEN PythonOpenDouble(c, l)
    ELSE Ret("Pure", c)

PythonClassify_BlankResets(c, l) ==
    LET trimmed == Trim(l) IN
    IF IsEmpty(trimmed) THEN Ret("Blank", PythonClassifier_new)
    ELSE IF c.in_triple_double THEN PythonInTripleDouble(c, trimmed)
    ELSE IF c.in_triple_single THEN PythonInTripleSingle(c, trimmed)
    ELSE IF StartsWith(trimmed, "#") THEN Ret("Comment", c)
    ELSE IF StartsWith(trimmed, TripleDouble) THEN PythonOpenDouble(c, l)
    ELSE IF StartsWith(trimmed, TripleSingle) THEN PythonOpenSingle(c, l)
    ELSE Ret("Pure", c)

PythonClassify(c, l) ==
    LET trimmed == Trim(l) IN
    IF IsEmpty(trimmed) THEN Ret("Blank", c)
    ELSE IF c.in_triple_double THEN PythonInTripleDouble(c, trimmed)
    ELSE IF c.in_triple_single THEN PythonInTripleSingle(c, trimmed)
    ELSE IF StartsWith(trimmed, "#") THEN Ret("Comment", c)
    ELSE IF StartsWith(trimmed, TripleDouble) THEN PythonOpenDouble(c, l)
    ELSE IF StartsWith(trimmed, TripleSingle) THEN PythonOpenSingle(c, l)
    ELSE Ret("Pure", c)

CStyleInBlock_CloseIsComment(c, trimmed) ==
    IF Contains(trimmed, "*/")
    THEN Ret("Comment", [c EXCEPT !.in_block = FALSE])
    ELSE Ret("Comment", c)

\* classify, lines 123-134: a block comment is open.
CStyleInBlock(c, trimmed) ==
    LET end_idx == Find(trimmed, "*/") IN
    IF end_idx # -1 THEN
        IF ~InRange(trimmed, end_idx + 2, Len(trimmed)) THEN Panicked(c)
        ELSE IF IsEmpty(Trim(SliceFrom(trimmed, end_idx + 2)))
        THEN Ret("Comment", [c EXCEPT !.in_block = FALSE])
        ELSE Ret("Pure", [c EXCEPT !.in_block = FALSE])
    ELSE Ret("Comment", c)

CStyleOpener_SlicesBetween(c, trimmed, start_idx) ==
    LET end_idx == Find(trimmed, "*/") IN
    IF end_idx # -1 THEN
        IF ~InRange(trimmed, start_idx + 2, end_idx) THEN Panicked(c)
        ELSE IF /\ IsEmpty(Trim(SliceTo(trimmed, start_idx)))
                /\ IsEmpty(Trim(SliceFrom(trimmed, end_idx + 2)))
        THEN Ret("Comment", c)
        ELSE Ret("Pure", c)
    ELSE IF IsEmpty(Trim(SliceTo(trimmed, start_idx)))
        THEN Ret("Comment", [c EXCEPT !.in_block = TRUE])
        ELSE Ret("Pure", [c EXCEPT !.in_block = TRUE])

\* classify, lines 145-164: the trimmed line holds an opener at start_idx.
\* The closer is looked for from the start of the line (line 146).
CStyleOpener(c, trimmed, start_idx) ==
    LET end_idx == Find(trimmed, "*/") IN
    IF end_idx # -1 THEN
        LET before == Trim(SliceTo(trimmed, start_idx))
            after == Trim(SliceFrom(trimmed, end_idx + 2))
        IN
        IF ~InRange(trimmed, 0, start_idx) \/ ~InRange(trimmed, end_idx + 2, Len(trimmed))
        THEN Panicked(c)
        ELSE IF IsEmpty(before) /\ IsEmpty(after)
        THEN Ret("Comment", c)
        ELSE Ret("Pure", c)
    ELSE IF ~InRange(trimmed, 0, start_idx) THEN Panicked(c)
    ELSE IF IsEmpty(Trim(SliceTo(trimmed, start_idx)))
        THEN Ret("Comment", [c EXCEPT !.in_block = TRUE])
        ELSE Ret("Pure", [c EXCEPT !.in_block = TRUE])

CStyleOutside_OpenerBeforePrefixes(c, trimmed) ==
    LET start_idx == Find(trimmed, "/*") IN
    IF start_idx # -1 THEN CStyleOpener(c, trimmed, start_idx)
    ELSE IF StartsWith(trimmed, "//") THEN Ret("Comment", c)
    ELSE IF StartsWith(trimmed, "*") THEN Ret("Comment", c)
    ELSE Ret("Pure", c)

\* classify, lines 136-166: no block comment is open.
CStyleOutside(c, trimmed) ==
    IF StartsWith(trimmed, "//") THEN Ret("Comment", c)
    ELSE IF StartsWith(trimmed, "*") THEN Ret("Comment", c)
    ELSE LET start_idx == Find(trimmed, "/*") IN
         IF start_idx # -1 THEN CStyleOpener(c, trimmed, start_idx)
         ELSE Ret("Pure", c)

CStyleClassify_BlockBeforeBlank(c, l) ==
    LET trimmed == Trim(l) IN
    IF c.in_block THEN CStyleInBlock(c, trimmed)
    ELSE IF IsEmpty(trimmed) THEN Ret("Blank", c)
    ELSE CStyleOutside(c, trimmed)

CStyleClassify(c, l) ==
    LET trimmed == Trim(l) IN
    IF IsEmpty(trimmed) THEN Ret("Blank", c)
    ELSE IF c.in_block THEN CStyleInBlock(c, trimmed)
    ELSE CStyleOutside(c, trimmed)

\* classify, lines 193-203: a comment is open.
HtmlInComment(c, trimmed) ==
    LET end_idx == Find(trimmed, "-->") IN
    IF end_idx # -1 THEN
        IF ~InRange(trimmed, end_idx + 3, Len(trimmed)) THEN Panicked(c)
        ELSE IF IsEmpty(Trim(SliceFrom(trimmed, end_idx + 3)))
        THEN Ret("Comment", [c EXCEPT !.in_comment = FALSE])
        ELSE Ret("Pure", [c EXCEPT !.in_comment = FALSE])
    ELSE Ret("Comment", c)

HtmlOpener_CloserFromLineStart(c, trimmed, start_idx) ==
    LET end_idx == Find(trimmed, "-->") IN
    IF end_idx # -1 THEN
        IF /\ IsEmpty(Trim(SliceTo(trimmed, start_idx)))
           /\ IsEmpty(Trim(SliceFrom(trimmed, end_idx + 3)))
        THEN Ret("Comment", c)
        ELSE Ret("Pure", c)
    ELSE IF IsEmpty(Trim(SliceTo(trimmed, start_idx)))
        THEN Ret("Comment", [c EXCEPT !.in_comment = TRUE])
        ELSE Ret("Pure", [c EXCEPT !.in_comment = TRUE])

\* classify, lines 205-222: the trimmed line holds an opener at start_idx.
\* The closer is looked for in the text after the opener (line 206).
HtmlOpener(c, trimmed, start_idx) ==
    LET end_rel == Find(SliceFrom(trimmed, start_idx + 4), "-->") IN
    IF ~InRange(trimmed, start_idx + 4, Len(trimmed)) THEN Panicked(c)
    ELSE IF end_rel # -1 THEN
        LET end_idx == start_idx + 4 + end_rel
            before == Trim(SliceTo(trimmed, start_idx))
            after == Trim(SliceFrom(trimmed, end_idx + 3))
        IN
        IF ~InRange(trimmed, 0, start_idx) \/ ~InRange(trimmed, end_idx + 3, Len(trimmed))
        THEN Panicked(c)
        ELSE IF IsEmpty(before) /\ IsEmpty(after)
        THEN Ret("Comment", c)
        ELSE Ret("Pure", c)
    ELSE IF ~InRange(trimmed, 0, start_idx) THEN Panicked(c)
    ELSE IF IsEmpty(Trim(SliceTo(trimmed, start_idx)))
        THEN Ret("Comment", [c EXCEPT !.in_comment = TRUE])
        ELSE Ret("Pure", [c EXCEPT !.in_comment = TRUE])

HtmlClassify(c, l) ==
    LET trimmed == Trim(l) IN
    IF IsEmpty(trimmed) THEN Ret("Blank", c)
    ELSE IF c.in_comment THEN HtmlInComment(c, trimmed)
    ELSE LET start_idx == Find(trimmed, "<!--") IN
         IF start_idx # -1 THEN HtmlOpener(c, trimmed, start_idx)
         ELSE Ret("Pure", c)

ShellClassify(c, l) ==
    LET trimmed == Trim(l) IN
    IF IsEmpty(trimmed) THEN Ret("Blank", c)
    ELSE IF StartsWith(trimmed, "#") THEN Ret("Comment", c)
    ELSE Ret("Pure", c)

RubyClassify_MarkerAnywhere(c, l) ==
    LET trimmed == Trim(l) IN
    IF IsEmpty(trimmed) THEN Ret("Blank", c)
    ELSE IF c.in_block THEN
        IF Contains(trimmed, "=end")
        THEN Ret("Comment", [c EXCEPT !.in_block = FALSE])
        ELSE Ret("Comment", c)
    ELSE IF StartsWith(trimmed, "#") THEN Ret("Comment", c)
    ELSE IF Contains(trimmed, "=begin") THEN Ret("Comment", [c EXCEPT !.in_block = TRUE])
    ELSE Ret("Pure", c)

RubyClassify(c, l) ==
    LET trimmed == Trim(l) IN
    IF IsEmpty(trimmed) THEN Ret("Blank", c)
    ELSE IF c.in_block THEN
        IF StartsWith(trimmed, "=end")
        THEN Ret("Comment", [c EXCEPT !.in_block = FALSE])
        ELSE Ret("Comment", c)
    ELSE IF StartsWith(trimmed, "#") THEN Ret("Comment", c)
    ELSE IF StartsWith(trimmed, "=begin") THEN Ret("Comment", [c EXCEPT !.in_block = TRUE])
    ELSE Ret("Pure", c)

\* Box<dyn Classifier>::classify: dispatch on the variant behind the box.
Classify(c, l) ==
    CASE c.kind = "Default" -> DefaultClassify(c, l)
      [] c.kind = "Shell" -> ShellClassify(c, l)
      [] c.kind = "Python" -> PythonClassify(c, l)
      [] c.kind = "CStyle" -> CStyleClassify(c, l)
      [] c.kind = "Html" -> HtmlClassify(c, l)
      [] c.kind = "Ruby" -> RubyClassify(c, l)

get_classifier_VueAsDefault(lang) ==
    CASE lang = "Python" -> PythonClassifier_new
      [] lang \in {"TypeScript", "JavaScript", "C", "C++", "C#", "Java", "Go", "PHP",
                   "Swift", "Kotlin", "Scala", "CSS"} -> CStyleClassifier_new
      [] lang = "HTML" -> HtmlClassifier_new
      [] lang \in {"Shell", "PowerShell"} -> ShellClassifier
      [] lang = "Ruby" -> RubyClassifier_new
      [] OTHER -> DefaultClassifier

\* get_classifier matches on the language tag as Display renders it.
get_classifier(lang) ==
    CASE lang = "Python" -> PythonClassifier_new
      [] lang \in {"TypeScript", "JavaScript", "C", "C++", "C#", "Java", "Go", "PHP",
                   "Swift", "Kotlin", "Scala", "CSS"} -> CStyleClassifier_new
      [] lang \in {"HTML", "Vue"} -> HtmlClassifier_new
      [] lang \in {"Shell", "PowerShell"} -> ShellClassifier
      [] lang = "Ruby" -> RubyClassifier_new
      [] OTHER -> DefaultClassifier

----------------------------------------------------------------------------
(* language.rs *)

\* The offset of the last occurrence of the one-character pattern ch, or -1.
RECURSIVE RFindFrom(_, _, _)
RFindFrom(s, ch, i) ==
    IF i = 0 THEN -1
    ELSE IF SubSeq(s, i, i) = ch THEN i - 1
    ELSE RFindFrom(s, ch, i - 1)

RFind(s, ch) ==
    RFindFrom(s, ch, Len(s))

\* Path::file_name of a path with no trailing separator: the last component,
\* None (<<>>) when there is none or it is "..".
file_name(path) ==
    LET name == SliceFrom(path, RFind(path, "/") + 1) IN
    IF name = "" \/ name = ".." THEN <<>> ELSE <<name>>

extension_AllowsLeadingDot(path) ==
    LET fname == file_name(path) IN
    IF fname = <<>> THEN <<>>
    ELSE LET dot == RFind(fname[1], ".") IN
         IF dot < 0 THEN <<>> ELSE <<SliceFrom(fname[1], dot + 1)>>

\* Path::extension: None without a file name, without a dot in it, or when its
\* only dot is the first character; else the part after the last dot.
extension(path) ==
    LET fname == file_name(path) IN
    IF fname = <<>> THEN <<>>
    ELSE LET dot == RFind(fname[1], ".") IN
         IF dot <= 0 THEN <<>> ELSE <<SliceFrom(fname[1], dot + 1)>>

\* Language::from_path: a Language variant, named as in the enum.
from_path(path) ==
    LET ext == extension(path)
        e == IF ext = <<>> THEN "" ELSE ext[1]
    IN
    IF ext = <<>> THEN "Other"
    ELSE CASE e = "py" -> "Python"
           [] e \in {"js", "jsx", "mjs"} -> "JavaScript"
           [] e \in {"ts", "tsx"} -> "TypeScript"
           [] e \in {"html", "htm"} -> "Html"
           [] e \in {"css", "scss"} -> "Css"
           [] e \in {"c", "h"} -> "C"
           [] e \in {"cpp", "hpp", "cc", "cxx", "hh"} -> "Cpp"
           [] e = "cs" -> "Csharp"
           [] e = "java" -> "Java"
           [] e = "go" -> "Go"
           [] e = "php" -> "Php"
           [] e = "rb" -> "Ruby"
           [] e = "swift" -> "Swift"
           [] e \in {"kt", "kts"} -> "Kotlin"
           [] e \in {"scala", "sc"} -> "Scala"
           [] e \in {"sh", "bash", "zsh"} -> "Shell"
           [] e \in {"ps1", "psm1"} -> "PowerShell"
           [] e = "vue" -> "Vue"
           [] OTHER -> "Other"

\* lib.rs, detect_language, lines 10-38: the tag, matched on the extension
\* or on "" when the path has none.
detect_language(path) ==
    LET ext == extension(path)
        e == IF ext = <<>> THEN "" ELSE ext[1]
    IN
    CASE e = "py" -> "Python"
      [] e \in {"ts", "tsx"} -> "TypeScript"
      [] e \in {"js", "jsx"} -> "JavaScript"
      [] e \in {"c", "h"} -> "C"
      [] e \in {"cpp", "cc", "hpp", "hh"} -> "C++"
      [] e = "cs" -> "C#"
      [] e = "java" -> "Java"
      [] e = "go" -> "Go"
      [] e = "swift" -> "Swift"
      [] e \in {"kt", "kts"} -> "Kotlin"
      [] e = "php" -> "PHP"
      [] e = "scala" -> "Scala"
      [] e = "rb" -> "Ruby"
      [] e \in {"sh", "bash", "zsh"} -> "Shell"
      [] e = "ps1" -> "PowerShell"
      [] e \in {"css", "scss"} -> "CSS"
      [] e \in {"html", "htm"} -> "HTML"
      [] e = "vue" -> "Vue"
      [] OTHER -> "Other"

\* Display for Language
to_string(language) ==
    CASE language = "Html" -> "HTML"
      [] language = "Css" -> "CSS"
      [] language = "Cpp" -> "C++"
      [] language = "Csharp" -> "C#"
      [] language = "Php" -> "PHP"
      [] OTHER -> language

\* get_classifier(language) as parse_diff and process_file call it: the
\* registry is keyed by the tag that Display renders.
classifier_for(language) ==
    get_classifier(to_string(language))

----------------------------------------------------------------------------
(* stats.rs *)

LangStats_default ==
    [total_added |-> 0, total_removed |-> 0,
     pure_added |-> 0, pure_removed |-> 0,
     comment_lines_added |-> 0, comment_lines_removed |-> 0,
     docstring_lines_added |-> 0, docstring_lines_removed |-> 0,
     blank_lines_added |-> 0, blank_lines_removed |-> 0,
     code_words_added |-> 0, code_words_removed |-> 0]

FileStats(path, language, lang_stats) ==
    [path |-> path, language |-> language, lang_stats |-> lang_stats]


----------------------------------------------------------------------------
(* parser.rs: parse_diff *)

\* str::trim_start_matches(p): strips the prefix p as often as it repeats.
RECURSIVE TrimStartMatches(_, _)
TrimStartMatches(s, p) ==
    IF Len(p) > 0 /\ StartsWith(s, p)
    THEN TrimStartMatches(SliceFrom(s, Len(p)), p)
    ELSE s

StripPrefix_Keep(s, p) ==
    s

\* s.strip_prefix(p), or s itself when p is no prefix (lines 47-51, 69-73).
StripPrefix(s, p) ==
    IF StartsWith(s, p) THEN SliceFrom(s, Len(p)) ELSE s

IsBinaryLine(l) ==
    StartsWith(l, "Binary files") /\ Contains(l, "differ")

IsOldHeader(l) ==
    StartsWith(l, "--- ")

IsNewHeader(l) ==
    StartsWith(l, "+++ ")

IsHunkHeader(l) ==
    StartsWith(l, "@@")

IsMetadata(l) ==
    \/ StartsWith(l, "diff --git")
    \/ StartsWith(l, "index ")
    \/ StartsWith(l, "new file mode")
    \/ StartsWith(l, "deleted file mode")

IsAddedLine(l) ==
    StartsWith(l, "+") /\ ~StartsWith(l, "+++")

IsRemovedLine(l) ==
    StartsWith(l, "-") /\ ~StartsWith(l, "---")

OldPath(l) ==
    Trim(TrimStartMatches(l, "--- "))

NewPath(l) ==
    Trim(TrimStartMatches(l, "+++ "))

\* The condition under which a taken accumulator is pushed (lines 32-34, 162-163).
ShouldEmit_NotBinaryOnly(file_stats, binary) ==
    ~binary

ShouldEmit(file_stats, binary) ==
    /\ ~binary
    /\ (file_stats.lang_stats.total_added > 0 \/ file_stats.lang_stats.total_removed > 0)

\* Lines 126-137: the counters after an added line with verdict v.
CountAdded_TotalOnlyForCode(stat, v, content) ==
    [stat EXCEPT
        !.total_added = IF v = "Blank" THEN @ ELSE @ + 1,
        !.pure_added = IF v = "Pure" THEN @ + 1 ELSE @,
        !.code_words_added = IF v = "Pure" THEN @ + count_words(content) ELSE @,
        !.comment_lines_added = IF v = "Comment" THEN @ + 1 ELSE @,
        !.docstring_lines_added = IF v = "Docstring" THEN @ + 1 ELSE @,
        !.blank_lines_added = IF v = "Blank" THEN @ + 1 ELSE @]

CountAdded(stat, v, content) ==
    [stat EXCEPT
        !.total_added = @ + 1,
        !.pure_added = IF v = "Pure" THEN @ + 1 ELSE @,
        !.code_words_added = IF v = "Pure" THEN @ + count_words(content) ELSE @,
        !.comment_lines_added = IF v = "Comment" THEN @ + 1 ELSE @,
        !.docstring_lines_added = IF v = "Docstring" THEN @ + 1 ELSE @,
        !.blank_lines_added = IF v = "Blank" THEN @ + 1 ELSE @]

CountRemoved_CountsSpaces(stat, v, content) ==
    [stat EXCEPT
        !.total_removed = @ + 1,
        !.pure_removed = IF v = "Pure" THEN @ + 1 ELSE @,
        !.code_words_removed = IF v = "Pure" THEN @ + count_words(content) - 1 ELSE @,
        !.comment_lines_removed = IF v = "Comment" THEN @ + 1 ELSE @,
        !.docstring_lines_removed = IF v = "Docstring" THEN @ + 1 ELSE @,
        !.blank_lines_removed = IF v = "Blank" THEN @ + 1 ELSE @]

\* Lines 140-151: the counters after a removed line with verdict v.
CountRemoved(stat, v, content) ==
    [stat EXCEPT
        !.total_removed = @ + 1,
        !.pure_removed = IF v = "Pure" THEN @ + 1 ELSE @,
        !.code_words_removed = IF v = "Pure" THEN @ + count_words(content) ELSE @,
        !.comment_lines_removed = IF v = "Comment" THEN @ + 1 ELSE @,
        !.docstring_lines_removed = IF v = "Docstring" THEN @ + 1 ELSE @,
        !.blank_lines_removed = IF v = "Blank" THEN @ + 1 ELSE @]

\* Lines 20-27: a "Binary files ... differ" line.
OnBinary ==
    /\ current_file_stats' = <<>>
    /\ is_binary_diff' = TRUE
    /\ ev' = IF current_file_stats # <<>> THEN "drop" ELSE "none"
    /\ verdict' = "None"
    /\ UNCHANGED <<classifier, stats, context_warning_printed, warnings>>

\* Lines 29-61: a "--- <path>" header.
OnOldHeader(l) ==
    LET path_part == OldPath(l)
        clean_path == StripPrefix(path_part, "a/")
        language == from_path(clean_path)
        emit == current_file_stats # <<>> /\ ShouldEmit(current_file_stats[1], is_binary_diff)
    IN
    /\ stats' = IF emit THEN Append(stats, current_file_stats[1]) ELSE stats
    /\ ev' = IF emit THEN "emit" ELSE IF current_file_stats # <<>> THEN "drop" ELSE "none"
    /\ is_binary_diff' = FALSE
    /\ IF path_part = "/dev/null"
       THEN /\ current_file_stats' = <<>>
            /\ UNCHANGED classifier
       ELSE /\ classifier' = classifier_for(language)
            /\ current_file_stats' =
                   <<FileStats(clean_path, to_string(language), LangStats_default)>>
    /\ verdict' = "None"
    /\ UNCHANGED <<context_warning_printed, warnings>>

OnNewHeader_DevNullOpens(l) ==
    LET path_part == NewPath(l)
        clean_path == StripPrefix(path_part, "b/")
        language == from_path(clean_path)
    IN
    /\ IF current_file_stats # <<>>
       THEN IF current_file_stats[1].path # clean_path
            THEN /\ classifier' = classifier_for(language)
                 /\ current_file_stats' =
                        <<[current_file_stats[1] EXCEPT
                              !.path = clean_path, !.language = to_string(language)]>>
            ELSE UNCHANGED <<classifier, current_file_stats>>
       ELSE /\ classifier' = classifier_for(language)
            /\ current_file_stats' =
                   <<FileStats(clean_path, to_string(language), LangStats_default)>>
    /\ ev' = "none"
    /\ verdict' = "None"
    /\ UNCHANGED <<stats, is_binary_diff, context_warning_printed, warnings>>

OnNewHeader_NoReinstantiate(l) ==
    LET path_part == NewPath(l)
        clean_path == StripPrefix(path_part, "b/")
        language == from_path(clean_path)
    IN
    /\ IF path_part = "/dev/null"
       THEN UNCHANGED <<classifier, current_file_stats>>
       ELSE IF current_file_stats # <<>>
       THEN IF current_file_stats[1].path # clean_path
            THEN /\ UNCHANGED classifier
                 /\ current_file_stats' =
                        <<[current_file_stats[1] EXCEPT
                              !.path = clean_path, !.language = to_string(language)]>>
            ELSE UNCHANGED <<classifier, current_file_stats>>
       ELSE /\ classifier' = classifier_for(language)
            /\ current_file_stats' =
                   <<FileStats(clean_path, to_string(language), LangStats_default)>>
    /\ ev' = "none"
    /\ verdict' = "None"
    /\ UNCHANGED <<stats, is_binary_diff, context_warning_printed, warnings>>

OnNewHeader_ResetsCounters(l) ==
    LET path_part == NewPath(l)
        clean_path == StripPrefix(path_part, "b/")
        language == from_path(clean_path)
    IN
    /\ IF path_part = "/dev/null"
       THEN UNCHANGED <<classifier, current_file_stats>>
       ELSE IF current_file_stats # <<>> /\ current_file_stats[1].path = clean_path
       THEN UNCHANGED <<classifier, current_file_stats>>
       ELSE /\ classifier' = classifier_for(language)
            /\ current_file_stats' =
                   <<FileStats(clean_path, to_string(language), LangStats_default)>>
    /\ ev' = "none"
    /\ verdict' = "None"
    /\ UNCHANGED <<stats, is_binary_diff, context_warning_printed, warnings>>

OnNewHeader_KeepsLanguage(l) ==
    LET path_part == NewPath(l)
        clean_path == StripPrefix(path_part, "b/")
        language == from_path(clean_path)
    IN
    /\ IF path_part = "/dev/null"
       THEN UNCHANGED <<classifier, current_file_stats>>
       ELSE IF current_file_stats # <<>>
       THEN IF current_file_stats[1].path # clean_path
            THEN /\ classifier' = classifier_for(language)
                 /\ current_file_stats' =
                        <<[current_file_stats[1] EXCEPT !.path = clean_path]>>
            ELSE UNCHANGED <<classifier, current_file_stats>>
       ELSE /\ classifier' = classifier_for(language)
            /\ current_file_stats' =
                   <<FileStats(clean_path, to_string(language), LangStats_default)>>
    /\ ev' = "none"
    /\ verdict' = "None"
    /\ UNCHANGED <<stats, is_binary_diff, context_warning_printed, warnings>>

\* Lines 63-92: a "+++ <path>" header.
OnNewHeader(l) ==
    LET path_part == NewPath(l)
        clean_path == StripPrefix(path_part, "b/")
        language == from_path(clean_path)
    IN
    /\ IF path_part = "/dev/null"
       THEN UNCHANGED <<classifier, current_file_stats>>
       ELSE IF current_file_stats # <<>>
       THEN IF current_file_stats[1].path # clean_path
            THEN /\ classifier' = classifier_for(language)
                 /\ current_file_stats' =
                        <<[current_file_stats[1] EXCEPT
                              !.path = clean_path, !.language = to_string(language)]>>
            ELSE UNCHANGED <<classifier, current_file_stats>>
       ELSE /\ classifier' = classifier_for(language)
            /\ current_file_stats' =
                   <<FileStats(clean_path, to_string(language), LangStats_default)>>
    /\ ev' = "none"
    /\ verdict' = "None"
    /\ UNCHANGED <<stats, is_binary_diff, context_warning_printed, warnings>>

\* Lines 95-104: a hunk header.
OnHunkHeader_KeepState ==
    /\ ev' = "none"
    /\ verdict' = "None"
    /\ UNCHANGED <<classifier, current_file_stats, stats, is_binary_diff,
                   context_warning_printed, warnings>>

OnHunkHeader ==
    /\ classifier' = IF current_file_stats # <<>>
                     THEN classifier_for(from_path(current_file_stats[1].path))
                     ELSE classifier
    /\ ev' = "none"
    /\ verdict' = "None"
    /\ UNCHANGED <<current_file_stats, stats, is_binary_diff, context_warning_printed,
                   warnings>>

\* Lines 107-122 and the fall-through of 124-158: the line changes nothing.
Ignored ==
    /\ ev' = "none"
    /\ verdict' = "None"
    /\ UNCHANGED <<classifier, current_file_stats, stats, is_binary_diff,
                   context_warning_printed, warnings>>

OnAdded_KeepsMarker(l) ==
    LET r == Classify(classifier, l)
        fs == current_file_stats[1]
    IN
    /\ classifier' = r.classifier
    /\ verdict' = r.verdict
    /\ current_file_stats' =
           <<[fs EXCEPT !.lang_stats = CountAdded(fs.lang_stats, r.verdict, l)]>>
    /\ ev' = "none"
    /\ UNCHANGED <<stats, is_binary_diff, context_warning_printed, warnings>>

\* Lines 124-137: an added content line of the open file.
OnAdded(l) ==
    LET content == SliceFrom(l, 1)
        r == Classify(classifier, content)
        fs == current_file_stats[1]
    IN
    /\ classifier' = r.classifier
    /\ verdict' = r.verdict
    /\ current_file_stats' =
           <<[fs EXCEPT !.lang_stats = CountAdded(fs.lang_stats, r.verdict, content)]>>
    /\ ev' = "none"
    /\ UNCHANGED <<stats, is_binary_diff, context_warning_printed, warnings>>

\* Lines 138-151: a removed content line of the open file.
OnRemoved(l) ==
    LET content == SliceFrom(l, 1)
        r == Classify(classifier, content)
        fs == current_file_stats[1]
    IN
    /\ classifier' = r.classifier
    /\ verdict' = r.verdict
    /\ current_file_stats' =
           <<[fs EXCEPT !.lang_stats = CountRemoved(fs.lang_stats, r.verdict, content)]>>
    /\ ev' = "none"
    /\ UNCHANGED <<stats, is_binary_diff, context_warning_printed, warnings>>

OnContext_NoFlag ==
    /\ warnings' = IF ~context_warning_printed
                   THEN [warnings EXCEPT ![Len(warnings)] = @ + 1]
                   ELSE warnings
    /\ ev' = "none"
    /\ verdict' = "None"
    /\ UNCHANGED <<classifier, current_file_stats, stats, is_binary_diff,
                   context_warning_printed>>

\* Lines 152-158: a context line.
OnContext ==
    /\ context_warning_printed' = TRUE
    /\ warnings' = IF ~context_warning_printed
                   THEN [warnings EXCEPT ![Len(warnings)] = @ + 1]
                   ELSE warnings
    /\ ev' = "none"
    /\ verdict' = "None"
    /\ UNCHANGED <<classifier, current_file_stats, stats, is_binary_diff>>

ParseLine_ErrWithoutFile(l) ==
    /\ line' = l
    /\ pre' = classifier
    /\ n' = n + 1
    /\ pc' = IF /\ current_file_stats = <<>>
                /\ ~IsBinaryLine(l) /\ ~IsOldHeader(l) /\ ~IsNewHeader(l)
                /\ ~IsHunkHeader(l) /\ ~IsMetadata(l) /\ ~is_binary_diff
             THEN "error" ELSE "loop"
    /\ IF IsBinaryLine(l) THEN OnBinary
       ELSE IF IsOldHeader(l) THEN OnOldHeader(l)
       ELSE IF IsNewHeader(l) THEN OnNewHeader(l)
       ELSE IF IsHunkHeader(l) THEN OnHunkHeader
       ELSE IF IsMetadata(l) THEN Ignored
       ELSE IF is_binary_diff THEN Ignored
       ELSE IF current_file_stats = <<>> THEN Ignored
       ELSE IF IsAddedLine(l) THEN OnAdded(l)
       ELSE IF IsRemovedLine(l) THEN OnRemoved(l)
       ELSE IF StartsWith(l, " ") THEN OnContext
       ELSE Ignored

\* Lines 16-159: one iteration of the loop, on the line l the reader yields.
ParseLine(l) ==
    /\ line' = l
    /\ pre' = classifier
    /\ n' = n + 1
    /\ pc' = "loop"
    /\ IF IsBinaryLine(l) THEN OnBinary
       ELSE IF IsOldHeader(l) THEN OnOldHeader(l)
       ELSE IF IsNewHeader(l) THEN OnNewHeader(l)
       ELSE IF IsHunkHeader(l) THEN OnHunkHeader
       ELSE IF IsMetadata(l) THEN Ignored
       ELSE IF is_binary_diff THEN Ignored
       ELSE IF current_file_stats = <<>> THEN Ignored
       ELSE IF IsAddedLine(l) THEN OnAdded(l)
       ELSE IF IsRemovedLine(l) THEN OnRemoved(l)
       ELSE IF StartsWith(l, " ") THEN OnContext
       ELSE Ignored

\* Line 17: the reader yields Err, and `?` returns it. The locals are dropped
\* with what they hold; what was pushed stays in the caller's vector.
ParseReadError ==
    /\ pc' = "error"
    /\ ev' = IF current_file_stats # <<>> THEN "drop" ELSE "none"
    /\ current_file_stats' = <<>>
    /\ classifier' = get_classifier("Other")
    /\ pre' = get_classifier("Other")
    /\ is_binary_diff' = FALSE
    /\ context_warning_printed' = FALSE
    /\ line' = ""
    /\ verdict' = "None"
    /\ UNCHANGED <<n, stats, warnings>>

\* Lines 7-14: parse_diff is entered, with a new vector for the output or with
\* the vector the call before has filled.
ParseDiffEntry ==
    /\ pc' = "loop"
    /\ current_file_stats' = <<>>
    /\ classifier' = get_classifier("Other")
    /\ pre' = get_classifier("Other")
    /\ is_binary_diff' = FALSE
    /\ context_warning_printed' = FALSE
    /\ warnings' = Append(warnings, 0)
    /\ stats' \in {<<>>, stats}
    /\ ev' = "none"
    /\ line' = ""
    /\ verdict' = "None"
    /\ UNCHANGED n

ParseEof_PushesInFront ==
    LET emit == current_file_stats # <<>> /\ ShouldEmit(current_file_stats[1], is_binary_diff)
    IN
    /\ stats' = IF emit THEN <<current_file_stats[1]>> \o stats ELSE stats
    /\ ev' = IF emit THEN "emit" ELSE IF current_file_stats # <<>> THEN "drop" ELSE "none"
    /\ current_file_stats' = <<>>
    /\ line' = ""
    /\ verdict' = "None"
    /\ pre' = classifier
    /\ pc' = "done"
    /\ UNCHANGED <<n, classifier, is_binary_diff, context_warning_printed, warnings>>

\* Lines 161-169: the reader is exhausted.
ParseEof ==
    LET emit == current_file_stats # <<>> /\ ShouldEmit(current_file_stats[1], is_binary_diff)
    IN
    /\ stats' = IF emit THEN Append(stats, current_file_stats[1]) ELSE stats
    /\ ev' = IF emit THEN "emit" ELSE IF current_file_stats # <<>> THEN "drop" ELSE "none"
    /\ current_file_stats' = <<>>
    /\ line' = ""
    /\ verdict' = "None"
    /\ pre' = classifier
    /\ pc' = "done"
    /\ UNCHANGED <<n, classifier, is_binary_diff, context_warning_printed, warnings>>


----------------------------------------------------------------------------
(* files.rs: analyze_files and process_file *)

\* process_file, lines 95-104: the counters after one line read with verdict v.
SnapCount(lang_stats, v, l) ==
    [lang_stats EXCEPT
        !.total_added = @ + 1,
        !.pure_added = IF v = "Pure" THEN @ + 1 ELSE @,
        !.code_words_added = IF v = "Pure" THEN @ + count_words(l) ELSE @,
        !.comment_lines_added = IF v = "Comment" THEN @ + 1 ELSE @,
        !.docstring_lines_added = IF v = "Docstring" THEN @ + 1 ELSE @,
        !.blank_lines_added = IF v = "Blank" THEN @ + 1 ELSE @]

\* analyze_files sees a file system entry as: its path, whether it exists,
\* whether File::open succeeds, its length in bytes and the offset of its
\* first zero byte (-1: it holds none).
Entry(path, exists, readable, size, nul) ==
    [path |-> path, exists |-> exists, readable |-> readable, size |-> size,
     nul |-> nul]

NoEntry ==
    Entry("", FALSE, FALSE, 0, -1)

\* is_binary, line 124: the length of the buffer.
BufferSize == 1024

Min(a, b) ==
    IF a <= b THEN a ELSE b

is_binary_WholeFile(f) ==
    IF ~f.readable
    THEN <<>>
    ELSE IF f.size = 0
         THEN <<FALSE>>
         ELSE <<f.nul # -1>>

\* is_binary, lines 122-134.  io::Result<bool> is <<>> for Err and <<b>> for
\* Ok(b); the read of a regular file fills the buffer up to the file's length.
is_binary(f) ==
    IF ~f.readable
    THEN <<>>
    ELSE LET read == Min(f.size, BufferSize) IN
         IF read = 0
         THEN <<FALSE>>
         ELSE <<f.nul # -1 /\ f.nul < read>>

\* analyze_files, lines 20-28: a listed path does not exist; a warning is
\* written to stderr and the path is skipped.
AnalyzeNotFound(f) ==
    /\ ~f.exists
    /\ entry' = f
    /\ warnings' = [warnings EXCEPT ![Len(warnings)] = @ + 1]
    /\ ev' = "skip"
    /\ line' = ""
    /\ verdict' = "None"
    /\ pre' = classifier
    /\ n' = n + 1
    /\ UNCHANGED <<file, classifier, stats>>

\* process_file, lines 75-90: the binary check passes and the file opens.
ProcessFileOpen(f) ==
    LET language == from_path(f.path) IN
    /\ f.exists
    /\ is_binary(f) = <<FALSE>>
    /\ entry' = f
    /\ file' = <<FileStats(f.path, to_string(language), LangStats_default)>>
    /\ classifier' = classifier_for(language)
    /\ pre' = classifier_for(language)
    /\ line' = ""
    /\ verdict' = "None"
    /\ ev' = "none"
    /\ n' = n + 1
    /\ UNCHANGED <<stats, warnings>>

\* process_file, lines 79-86: is_binary fails or answers true: process_file
\* returns Err; analyze_files, lines 23-25 and 67-69, pushes nothing and
\* writes nothing.
ProcessFileRejected(f) ==
    /\ f.exists
    /\ is_binary(f) # <<FALSE>>
    /\ entry' = f
    /\ ev' = "skip"
    /\ line' = ""
    /\ verdict' = "None"
    /\ pre' = classifier
    /\ n' = n + 1
    /\ UNCHANGED <<file, classifier, stats, warnings>>

ProcessFileLine_FreshEachLine(l) ==
    LET r == Classify(classifier_for(from_path(file[1].path)), l)
        fs == file[1]
    IN
    /\ entry.size > 0
    /\ line' = l
    /\ pre' = classifier
    /\ classifier' = r.classifier
    /\ verdict' = r.verdict
    /\ file' = <<[fs EXCEPT !.lang_stats = SnapCount(fs.lang_stats, r.verdict, l)]>>
    /\ ev' = "none"
    /\ n' = n + 1
    /\ UNCHANGED <<stats, entry, warnings>>

\* process_file, lines 92-105: the reader yields Ok(l); a file of no bytes
\* has no line.
ProcessFileLine(l) ==
    LET r == Classify(classifier, l)
        fs == file[1]
    IN
    /\ entry.size > 0
    /\ line' = l
    /\ pre' = classifier
    /\ classifier' = r.classifier
    /\ verdict' = r.verdict
    /\ file' = <<[fs EXCEPT !.lang_stats = SnapCount(fs.lang_stats, r.verdict, l)]>>
    /\ ev' = "none"
    /\ n' = n + 1
    /\ UNCHANGED <<stats, entry, warnings>>

\* process_file, lines 106-111: the reader yields Err; the frame is dropped,
\* and analyze_files, lines 23-25 and 67-69, writes nothing.
ProcessFileReadError ==
    /\ entry.size > 0
    /\ file' = <<>>
    /\ ev' = "drop"
    /\ line' = ""
    /\ verdict' = "None"
    /\ pre' = classifier
    /\ UNCHANGED <<n, classifier, stats, entry, warnings>>

\* process_file, lines 115-119, and analyze_files, lines 23-25 and 67-69:
\* the file ends (after at least one line when it holds bytes), Ok(FileStats)
\* is returned and pushed.
ProcessFileEnd ==
    /\ entry.size = 0 \/ file[1].lang_stats.total_added > 0
    /\ stats' = Append(stats, file[1])
    /\ file' = <<>>
    /\ ev' = "emit"
    /\ line' = ""
    /\ verdict' = "None"
    /\ pre' = classifier
    /\ UNCHANGED <<n, classifier, entry, warnings>>

\* analyze_files, line 20: reading the list of paths fails; analyze_files
\* returns Err and its vector is dropped.
AnalyzeListError ==
    /\ pc' = "error"
    /\ stats' = <<>>
    /\ ev' = "none"
    /\ line' = ""
    /\ verdict' = "None"
    /\ pre' = classifier
    /\ UNCHANGED <<n, classifier, file, entry, warnings>>

----------------------------------------------------------------------------
(* diff.rs and main.rs: the commands around the scanners *)

Unmoved ==
    UNCHANGED <<n, line, verdict, pre, ev, classifier, current_file_stats,
                is_binary_diff, context_warning_printed, warnings, stats>>

\* get_stdin_diff, lines 27-29, and get_git_diff, lines 4-25, when git exits
\* with success: main has a reader and calls parse_diff, main.rs lines 267
\* and 305.
GetDiff ==
    /\ pc' = "loop"
    /\ Unmoved

\* get_git_diff, lines 5-20: git cannot be spawned or exits with a failure.
GetGitDiffErr ==
    /\ pc' = "git_failed"
    /\ Unmoved

MainExit_ReportsAnyway ==
    /\ pc' = "reported"
    /\ UNCHANGED <<mode, n, line, verdict, pre, ev, classifier,
                   current_file_stats, is_binary_diff, context_warning_printed,
                   warnings, stats, file, entry, args, script, verdicts>>

\* main, lines 218-225, 256-262, 267-273 and 305-311: the scanner or git
\* returned Err; the error is written to stderr and the process exits with 1.
MainExit ==
    /\ pc' = "exit1"
    /\ UNCHANGED <<mode, n, line, verdict, pre, ev, classifier,
                   current_file_stats, is_binary_diff, context_warning_printed,
                   warnings, stats, file, entry, args, script, verdicts>>

\* main, lines 326-332: the scanner returned Ok and the report is printed.
MainReport ==
    /\ pc' = "reported"
    /\ UNCHANGED <<mode, n, line, verdict, pre, ev, classifier,
                   current_file_stats, is_binary_diff, context_warning_printed,
                   warnings, stats, file, entry, args, script, verdicts>>

\* FilesConfig, main.rs lines 353-361: the fields check_thresholds and main's
\* tail read.  Option is <<>> or <<x>>; the f64 max_noise_ratio is the pair
\* <<a, b>> of the fraction a / b.
FilesConfig(max_noise_ratio, min_pure_lines, fail_on_decrease, warn_only) ==
    [max_noise_ratio |-> max_noise_ratio, min_pure_lines |-> min_pure_lines,
     fail_on_decrease |-> fail_on_decrease, warn_only |-> warn_only]

NoArgs ==
    FilesConfig(<<>>, <<>>, FALSE, FALSE)

\* check_thresholds, lines 364-373: the sum of one counter over the files.
RECURSIVE SumOf(_, _, _)
SumOf(file_stats, field, i) ==
    IF i > Len(file_stats) THEN 0
    ELSE file_stats[i].lang_stats[field] + SumOf(file_stats, field, i + 1)

\* check_thresholds, lines 364-373: overall; the five counters the loop does
\* not add up stay 0.
Overall(file_stats) ==
    [LangStats_default EXCEPT
        !.total_added = SumOf(file_stats, "total_added", 1),
        !.total_removed = SumOf(file_stats, "total_removed", 1),
        !.pure_added = SumOf(file_stats, "pure_added", 1),
        !.pure_removed = SumOf(file_stats, "pure_removed", 1),
        !.comment_lines_added = SumOf(file_stats, "comment_lines_added", 1),
        !.docstring_lines_added = SumOf(file_stats, "docstring_lines_added", 1),
        !.blank_lines_added = SumOf(file_stats, "blank_lines_added", 1)]

\* LangStats::net_pure, stats.rs lines 39-41.
net_pure(ls) ==
    ls.pure_added - ls.pure_removed

\* check_thresholds, lines 379-383: 1.0 - pure_changes / total_changes >
\* max_ratio, for total_changes > 0 and max_ratio = a / b with b > 0, on the
\* integers: (total - pure) * b > a * total.
NoiseRatioExceeds(overall, max_ratio) ==
    LET total_changes == overall.total_added + overall.total_removed
        pure_changes == overall.pure_added + overall.pure_removed
    IN (total_changes - pure_changes) * max_ratio[2] > max_ratio[1] * total_changes

check_thresholds_DecreaseFirst(file_stats, a) ==
    LET overall == Overall(file_stats) IN
    IF /\ a.max_noise_ratio # <<>>
       /\ overall.total_added + overall.total_removed > 0
       /\ NoiseRatioExceeds(overall, a.max_noise_ratio[1])
    THEN "NoiseRatioExceeded"
    ELSE IF a.fail_on_decrease /\ net_pure(overall) < 0
    THEN "PureLinesDecreased"
    ELSE IF a.min_pure_lines # <<>> /\ net_pure(overall) < a.min_pure_lines[1]
    THEN "MinPureLines"
    ELSE "Ok"

\* check_thresholds, lines 363-408: "Ok", or the variant of ThresholdError.
check_thresholds(file_stats, a) ==
    LET overall == Overall(file_stats) IN
    IF /\ a.max_noise_ratio # <<>>
       /\ overall.total_added + overall.total_removed > 0
       /\ NoiseRatioExceeds(overall, a.max_noise_ratio[1])
    THEN "NoiseRatioExceeded"
    ELSE IF a.min_pure_lines # <<>> /\ net_pure(overall) < a.min_pure_lines[1]
    THEN "MinPureLines"
    ELSE IF a.fail_on_decrease /\ net_pure(overall) < 0
    THEN "PureLinesDecreased"
    ELSE "Ok"

\* main, lines 334-350: after the report, check_thresholds is called; on Err
\* the error is written and the process exits with 2 unless warn_only is
\* set; otherwise main returns.  verdict holds what check_thresholds returned.
MainThresholds ==
    LET r == check_thresholds(stats, args) IN
    /\ verdict' = r
    /\ pc' = IF r # "Ok" /\ ~args.warn_only THEN "exit2" ELSE "exit0"
    /\ UNCHANGED <<mode, n, line, pre, ev, classifier, current_file_stats,
                   is_binary_diff, context_warning_printed, warnings, stats, file,
                   entry, args, script, verdicts>>

----------------------------------------------------------------------------
(* The inputs *)

MaxLines == 5

\* The calls of parse_diff one caller makes.
MaxCalls == 2

\* The lines a diff reader can yield: one or more for every branch of the loop.
DiffLines ==
    {"Binary files a/i.png and b/i.png differ",
     "--- a/t.py", "--- a/m.c", "--- /dev/null",
     "+++ b/t.py", "+++ b/m.c", "+++ /dev/null",
     "@@ -1 +1 @@",
     "index 1..2 100644",
     "+\"\"\"", "+x = 1", "+", "+/* c",
     "-\"\"\"", "-# c",
     " ctx",
     "\\ No newline at end of file"}

\* The files a snapshot walk can meet, and the lines they can hold.
SnapPaths ==
    {"./t.py", "m.c"}

\* The entries met at each path: an empty file, a short file with a zero
\* byte, long files with no zero byte, with one at the last offset read and
\* with one at the first offset not read, a file that cannot be opened, and
\* a path that does not exist.
SnapFiles ==
    UNION {{Entry(path, TRUE, TRUE, 0, -1),
            Entry(path, TRUE, TRUE, 2, 1),
            Entry(path, TRUE, TRUE, BufferSize + 6, -1),
            Entry(path, TRUE, TRUE, BufferSize + 6, BufferSize - 1),
            Entry(path, TRUE, TRUE, BufferSize + 6, BufferSize),
            Entry(path, TRUE, FALSE, 2, -1),
            Entry(path, FALSE, FALSE, 0, -1)} : path \in SnapPaths}

SnapLines ==
    {"\"\"\"", "x = 1", "", "/* c", "# c"}

----------------------------------------------------------------------------
(* Spec: main runs parse_diff on an arbitrary stream, or analyze_files on an
   arbitrary tree. *)

Init ==
    /\ mode \in {"diff", "snapshot"}
    /\ pc = IF mode = "diff" THEN "start" ELSE "loop"
    /\ n = 0
    /\ line = ""
    /\ verdict = "None"
    /\ classifier = get_classifier("Other")
    /\ pre = get_classifier("Other")
    /\ ev = "none"
    /\ current_file_stats = <<>>
    /\ is_binary_diff = FALSE
    /\ context_warning_printed = FALSE
    /\ warnings = <<0>>
    /\ stats = <<>>
    /\ file = <<>>
    /\ entry = NoEntry
    /\ args = NoArgs
    /\ script = <<>>
    /\ verdicts = <<>>

ReadLine ==
    /\ mode = "diff" /\ pc = "loop" /\ n < MaxLines
    /\ \E l \in DiffLines : ParseLine(l)
    /\ UNCHANGED <<mode, file, entry, args, script, verdicts>>

EndOfStream ==
    /\ mode = "diff" /\ pc = "loop"
    /\ ParseEof
    /\ UNCHANGED <<mode, file, entry, args, script, verdicts>>

ReadError ==
    /\ mode = "diff" /\ pc = "loop"
    /\ ParseReadError
    /\ UNCHANGED <<mode, file, entry, args, script, verdicts>>

\* A caller that embeds the scanner calls parse_diff again, on another reader.
ParseAgain ==
    /\ mode = "diff" /\ pc \in {"done", "error"} /\ Len(warnings) < MaxCalls
    /\ ParseDiffEntry
    /\ UNCHANGED <<mode, file, entry, args, script, verdicts>>

SnapNotFound ==
    /\ mode = "snapshot" /\ pc = "loop" /\ file = <<>> /\ n < MaxLines
    /\ \E f \in SnapFiles : AnalyzeNotFound(f)
    /\ UNCHANGED <<mode, pc, current_file_stats, is_binary_diff,
                   context_warning_printed, args, script, verdicts>>

SnapOpen ==
    /\ mode = "snapshot" /\ pc = "loop" /\ file = <<>> /\ n < MaxLines
    /\ \E f \in SnapFiles : ProcessFileOpen(f)
    /\ UNCHANGED <<mode, pc, current_file_stats, is_binary_diff,
                   context_warning_printed, args, script, verdicts>>

SnapRejected ==
    /\ mode = "snapshot" /\ pc = "loop" /\ file = <<>> /\ n < MaxLines
    /\ \E f \in SnapFiles : ProcessFileRejected(f)
    /\ UNCHANGED <<mode, pc, current_file_stats, is_binary_diff,
                   context_warning_printed, args, script, verdicts>>

SnapLine ==
    /\ mode = "snapshot" /\ pc = "loop" /\ file # <<>> /\ n < MaxLines
    /\ \E l \in SnapLines : ProcessFileLine(l)
    /\ UNCHANGED <<mode, pc, current_file_stats, is_binary_diff,
                   context_warning_printed, args, script, verdicts>>

SnapReadError ==
    /\ mode = "snapshot" /\ pc = "loop" /\ file # <<>>
    /\ ProcessFileReadError
    /\ UNCHANGED <<mode, pc, current_file_stats, is_binary_diff,
                   context_warning_printed, args, script, verdicts>>

SnapFileEnd ==
    /\ mode = "snapshot" /\ pc = "loop" /\ file # <<>>
    /\ ProcessFileEnd
    /\ UNCHANGED <<mode, pc, current_file_stats, is_binary_diff,
                   context_warning_printed, args, script, verdicts>>

SnapListError ==
    /\ mode = "snapshot" /\ pc = "loop" /\ file = <<>>
    /\ AnalyzeListError
    /\ UNCHANGED <<mode, current_file_stats, is_binary_diff,
                   context_warning_printed, args, script, verdicts>>

\* analyze_files, lines 30 and 72: the list of files is exhausted.
SnapWalkEnd ==
    /\ mode = "snapshot" /\ pc = "loop" /\ file = <<>>
    /\ pc' = "done"
    /\ ev' = "none"
    /\ UNCHANGED <<mode, n, line, verdict, pre, classifier, current_file_stats,
                   is_binary_diff, context_warning_printed, warnings, stats, file,
                   entry, args, script, verdicts>>

GitDiff ==
    /\ mode = "diff" /\ pc = "start"
    /\ GetDiff
    /\ UNCHANGED <<mode, file, entry, args, script, verdicts>>

GitDiffFails ==
    /\ mode = "diff" /\ pc = "start"
    /\ GetGitDiffErr
    /\ UNCHANGED <<mode, file, entry, args, script, verdicts>>

\* main runs its scanner once.
Report ==
    /\ mode \in {"diff", "snapshot"} /\ pc = "done" /\ Len(warnings) = 1
    /\ MainReport

Exit ==
    /\ mode \in {"diff", "snapshot"} /\ pc \in {"error", "git_failed"}
    /\ Len(warnings) = 1
    /\ MainExit

Next ==
    \/ GitDiff
    \/ GitDiffFails
    \/ ReadLine
    \/ EndOfStream
    \/ ReadError
    \/ ParseAgain
    \/ SnapNotFound
    \/ SnapOpen
    \/ SnapRejected
    \/ SnapLine
    \/ SnapReadError
    \/ SnapFileEnd
    \/ SnapListError
    \/ SnapWalkEnd
    \/ Report
    \/ Exit

Spec == Init /\ [][Next]_vars


----------------------------------------------------------------------------
(* ClassifierSpec: a caller obtains a classifier from get_classifier and calls
   classify on one line after another, as the tests of classifier.rs do. *)

MaxPieces == 4

PythonPieces == {TripleDouble, TripleSingle, "\"", "#", " ", "x"}
CStylePieces == {"/*", "*/", "/", "*", " ", "x"}
HtmlPieces == {"<!--", "-->", "-", ">", " ", "x"}
RubyPieces == {"=begin", "=end", "=", "#", " ", "x"}

\* Every line made of at most k pieces of P.
RECURSIVE LinesOf(_, _)
LinesOf(P, k) ==
    IF k = 0 THEN {""}
    ELSE LET shorter == LinesOf(P, k - 1) IN
         shorter \cup {s \o p : s \in shorter, p \in P}

\* The lines of test_cstyle_classifier, test_ruby_classifier and
\* test_html_classifier.
TestLines ==
    {"int x = 1;", "// comment", "   ", "/*", " * inside", "*/", "x = 2;",
     "/* comment */", "code(); /* comment */", "code(); /* comment */ more();",
     "do_work(); /* start", " * inside block", " end */", "done();",
     "x = 1", "# comment", "", "=begin", "docs", "=end", "y = 2",
     "<div>hi</div>", "<!-- full line comment -->", "text <!-- inline --> more",
     "<!-- start", "still comment", "end --> trailing"}

ClassLines ==
    LinesOf(PythonPieces, MaxPieces) \cup LinesOf(CStylePieces, MaxPieces)
        \cup LinesOf(HtmlPieces, MaxPieces) \cup LinesOf(RubyPieces, MaxPieces)
        \cup TestLines

LanguageTags ==
    {"Python", "JavaScript", "TypeScript", "HTML", "CSS", "C", "C++", "C#", "Java",
     "Go", "PHP", "Ruby", "Swift", "Kotlin", "Scala", "Shell", "PowerShell", "Vue",
     "Other"}

InitClassifier ==
    /\ mode = "classify"
    /\ pc = "ready"
    /\ n = 0
    /\ line = ""
    /\ verdict = "None"
    /\ classifier \in {get_classifier(lang) : lang \in LanguageTags}
    /\ pre = classifier
    /\ ev = "none"
    /\ current_file_stats = <<>>
    /\ is_binary_diff = FALSE
    /\ context_warning_printed = FALSE
    /\ warnings = <<>>
    /\ stats = <<>>
    /\ file = <<>>
    /\ entry = NoEntry
    /\ args = NoArgs
    /\ script = <<>>
    /\ verdicts = <<>>

\* classifier.classify(l)
ClassifyCall ==
    /\ mode = "classify" /\ pc = "ready"
    /\ \E l \in ClassLines :
          LET r == Classify(classifier, l) IN
          /\ line' = l
          /\ pre' = classifier
          /\ classifier' = r.classifier
          /\ verdict' = r.verdict
    /\ pc' = "returned"
    /\ UNCHANGED <<mode, n, ev, current_file_stats, is_binary_diff,
                   context_warning_printed, warnings, stats, file, entry, args, script, verdicts>>

\* The caller has looked at the verdict and goes on to its next line.
ClassifyNext ==
    /\ mode = "classify" /\ pc = "returned"
    /\ pc' = "ready"
    /\ line' = ""
    /\ verdict' = "None"
    /\ pre' = classifier
    /\ UNCHANGED <<mode, n, ev, classifier, current_file_stats, is_binary_diff,
                   context_warning_printed, warnings, stats, file, entry, args, script, verdicts>>

NextClassifier ==
    \/ ClassifyCall
    \/ ClassifyNext

ClassifierSpec == InitClassifier /\ [][NextClassifier]_vars


----------------------------------------------------------------------------
(* ResolveSpec: a caller resolves paths to languages and asks the registry
   for classifiers, in any order, and feeds lines to the classifier it got
   last. *)

\* The extensions from_path names, spellings of them in other case, and
\* extensions it does not name.
ResolveExtensions ==
    {"py", "js", "jsx", "mjs", "ts", "tsx", "html", "htm", "css", "scss", "c", "h",
     "cpp", "hpp", "cc", "cxx", "hh", "cs", "java", "go", "php", "rb", "swift",
     "kt", "kts", "scala", "sc", "sh", "bash", "zsh", "ps1", "psm1", "vue",
     "PY", "Py", "JS", "Html", "C", "H", "Cpp", "RB", "Vue",
     "txt", "rs", "pyc", "p", "y", ""}

\* File names: with each extension, with two extensions, with no extension,
\* and with a dot only as first character.
ResolveNames ==
    {"x." \o e : e \in ResolveExtensions}
        \cup {"x.tar.py", "x.py.txt", "x.py.", "Dockerfile.sh",
              "README", "Dockerfile", "Makefile", "py", "xpy",
              ".py", ".c", ".gitignore"}

ResolvePaths ==
    {d \o name : d \in {"", "src/", "./lib.py/"}, name \in ResolveNames}

\* The tags the registry is asked for: those Display renders, and strings it
\* never renders.
RegistryTags ==
    LanguageTags \cup {"python", "Html", "Cpp", "Rust", ""}

UseLines ==
    {"/*", "<!--", "=begin", TripleDouble, TripleSingle, "x"}

InitResolve ==
    /\ mode = "resolve"
    /\ pc = "ready"
    /\ n = 0
    /\ line = ""
    /\ verdict = "None"
    /\ classifier = get_classifier("Other")
    /\ pre = get_classifier("Other")
    /\ ev = "none"
    /\ current_file_stats = <<>>
    /\ is_binary_diff = FALSE
    /\ context_warning_printed = FALSE
    /\ warnings = <<>>
    /\ stats = <<>>
    /\ file = <<>>
    /\ entry = NoEntry
    /\ args = NoArgs
    /\ script = <<>>
    /\ verdicts = <<>>

\* Language::from_path(path).to_string(), as at parser.rs:52-53 and
\* files.rs:88: line holds the path and verdict the tag.
ResolvePath ==
    /\ mode = "resolve" /\ pc \in {"ready", "got", "used"}
    /\ \E path \in ResolvePaths :
          /\ line' = path
          /\ verdict' = to_string(from_path(path))
    /\ pc' = "resolved"
    /\ UNCHANGED <<mode, n, pre, ev, classifier, current_file_stats, is_binary_diff,
                   context_warning_printed, warnings, stats, file, entry, args, script,
                   verdicts>>

\* get_classifier(tag): line holds the tag, pre the instance the caller held
\* before the call.
GetClassifier ==
    /\ mode = "resolve"
    /\ \E tag \in RegistryTags :
          /\ line' = tag
          /\ classifier' = get_classifier(tag)
    /\ pre' = classifier
    /\ verdict' = "None"
    /\ pc' = "got"
    /\ UNCHANGED <<mode, n, ev, current_file_stats, is_binary_diff,
                   context_warning_printed, warnings, stats, file, entry, args, script,
                   verdicts>>

\* classify(l) on the instance the caller holds.
UseClassifier ==
    /\ mode = "resolve" /\ pc \in {"got", "used"}
    /\ \E l \in UseLines :
          LET r == Classify(classifier, l) IN
          /\ line' = l
          /\ pre' = classifier
          /\ classifier' = r.classifier
          /\ verdict' = r.verdict
    /\ pc' = "used"
    /\ UNCHANGED <<mode, n, ev, current_file_stats, is_binary_diff,
                   context_warning_printed, warnings, stats, file, entry, args, script,
                   verdicts>>

\* detect_language(path): line holds the path and verdict the tag.
DetectLanguage ==
    /\ mode = "resolve" /\ pc \in {"ready", "got", "used"}
    /\ \E path \in ResolvePaths :
          /\ line' = path
          /\ verdict' = detect_language(path)
    /\ pc' = "detected"
    /\ UNCHANGED <<mode, n, pre, ev, classifier, current_file_stats, is_binary_diff,
                   context_warning_printed, warnings, stats, file, entry, args, script,
                   verdicts>>

NextResolve ==
    \/ ResolvePath
    \/ DetectLanguage
    \/ GetClassifier
    \/ UseClassifier

ResolveSpec == InitResolve /\ [][NextResolve]_vars

----------------------------------------------------------------------------
(* ScriptSpec: the reader's content is known in advance, as in the tests
   of parser.rs (a Cursor over a literal diff) and of classifier.rs (a
   literal list of lines fed to one classifier). *)

\* parser.rs, test_parse_diff_synthetic: the diff of the test.
TestDiff ==
    <<"diff --git a/test.py b/test.py",
      "index 123..456 100644",
      "--- a/test.py",
      "+++ b/test.py",
      "@@ -1,3 +1,3 @@",
      "-def foo():",
      "-# comment",
      "+def bar():",
      "+    pass">>

\* The lines of s at the positions in S, in order.
RECURSIVE Pick(_, _, _)
Pick(s, S, i) ==
    IF i > Len(s) THEN <<>>
    ELSE (IF i \in S THEN <<s[i]>> ELSE <<>>) \o Pick(s, S, i + 1)

\* A diff of one Python file whose content lines draw every verdict on each
\* side, with text that begins with white space after the marker.
VerdictsDiff ==
    <<"+++ b/w.py",
      "+\"\"\"",
      "+ doc text",
      "+\"\"\"",
      "+",
      "+ y = f( 2 )",
      "-",
      "-# c",
      "- z = 1">>

\* The two diffs and every diff obtained from one of them by deleting lines.
DiffScripts ==
    {Pick(TestDiff, S, 1) : S \in SUBSET (1 .. Len(TestDiff))}
        \cup {Pick(VerdictsDiff, S, 1) : S \in SUBSET (1 .. Len(VerdictsDiff))}

MaxScript == 5

ScriptLines ==
    {TripleDouble, TripleSingle, "docs", "# c", "", "x \"\"\"", "x = 1"}

RECURSIVE SeqsUpTo(_, _)
SeqsUpTo(S, k) ==
    IF k = 0 THEN {<<>>}
    ELSE LET shorter == SeqsUpTo(S, k - 1) IN
         shorter \cup {Append(q, x) : q \in shorter, x \in S}

ClassifyScripts ==
    SeqsUpTo(ScriptLines, MaxScript)

InitScript ==
    /\ \/ /\ mode = "diff"
          /\ pc = "loop"
          /\ script \in DiffScripts
          /\ classifier = get_classifier("Other")
       \/ /\ mode = "classify"
          /\ pc = "ready"
          /\ script \in ClassifyScripts
          /\ classifier = PythonClassifier_new
    /\ n = 0
    /\ line = ""
    /\ verdict = "None"
    /\ pre = classifier
    /\ ev = "none"
    /\ current_file_stats = <<>>
    /\ is_binary_diff = FALSE
    /\ context_warning_printed = FALSE
    /\ warnings = IF mode = "diff" THEN <<0>> ELSE <<>>
    /\ stats = <<>>
    /\ file = <<>>
    /\ entry = NoEntry
    /\ args = NoArgs
    /\ verdicts = <<>>

ScriptReadLine ==
    /\ mode = "diff" /\ pc = "loop" /\ n < Len(script)
    /\ ParseLine(script[n + 1])
    /\ UNCHANGED <<mode, file, entry, args, script, verdicts>>

ScriptEndOfStream ==
    /\ mode = "diff" /\ pc = "loop" /\ n = Len(script)
    /\ ParseEof
    /\ UNCHANGED <<mode, file, entry, args, script, verdicts>>

\* assert_eq!(c.classify(l), ...) on the next line of the list.
ScriptClassify ==
    /\ mode = "classify" /\ pc = "ready" /\ n < Len(script)
    /\ LET r == Classify(classifier, script[n + 1]) IN
       /\ line' = script[n + 1]
       /\ pre' = classifier
       /\ classifier' = r.classifier
       /\ verdict' = r.verdict
       /\ verdicts' = Append(verdicts, r.verdict)
    /\ n' = n + 1
    /\ UNCHANGED <<mode, pc, ev, current_file_stats, is_binary_diff,
                   context_warning_printed, warnings, stats, file, entry, args, script>>

ScriptClassifyDone ==
    /\ mode = "classify" /\ pc = "ready" /\ n = Len(script)
    /\ pc' = "done"
    /\ UNCHANGED <<mode, n, line, verdict, pre, ev, classifier, current_file_stats,
                   is_binary_diff, context_warning_printed, warnings, stats, file, entry, args, script,
                   verdicts>>

NextScript ==
    \/ ScriptReadLine
    \/ ScriptEndOfStream
    \/ ScriptClassify
    \/ ScriptClassifyDone

ScriptSpec == InitScript /\ [][NextScript]_vars


----------------------------------------------------------------------------
(* ThresholdSpec: main's tail.  The scanner has returned Ok with some vector
   of FileStats, and the command line has set some thresholds. *)

MaxFiles == 2

\* The counters of one file: up to one pure and one comment line added, up
\* to two pure lines removed.
ThresholdLangStats ==
    {[LangStats_default EXCEPT
         !.pure_added = pa, !.comment_lines_added = ca, !.total_added = pa + ca,
         !.pure_removed = pr, !.total_removed = pr,
         !.code_words_added = pa, !.code_words_removed = pr] :
        pa \in 0 .. 1, ca \in 0 .. 1, pr \in 0 .. 2}

ThresholdStats ==
    SeqsUpTo({FileStats("t.py", "Python", ls) : ls \in ThresholdLangStats}, MaxFiles)

\* --max-noise-ratio absent, 0 or 0.5; --min-pure-lines absent, 0 or 2.
ThresholdArgs ==
    {FilesConfig(r, m, d, w) :
        r \in {<<>>, << <<0, 1>> >>, << <<1, 2>> >>},
        m \in {<<>>, <<0>>, <<2>>},
        d \in BOOLEAN,
        w \in BOOLEAN}

InitThreshold ==
    /\ mode \in {"diff", "snapshot"}
    /\ pc = "done"
    /\ n = 0
    /\ line = ""
    /\ verdict = "None"
    /\ classifier = get_classifier("Other")
    /\ pre = get_classifier("Other")
    /\ ev = "none"
    /\ current_file_stats = <<>>
    /\ is_binary_diff = FALSE
    /\ context_warning_printed = FALSE
    /\ warnings = <<0>>
    /\ stats \in ThresholdStats
    /\ file = <<>>
    /\ entry = NoEntry
    /\ args \in ThresholdArgs
    /\ script = <<>>
    /\ verdicts = <<>>

Thresholds ==
    /\ mode \in {"diff", "snapshot"} /\ pc = "reported"
    /\ MainThresholds

NextThreshold ==
    \/ Report
    \/ Thresholds

ThresholdSpec == InitThreshold /\ [][NextThreshold]_vars

----------------------------------------------------------------------------
(* The claims *)

SumsHold(ls) ==
    /\ ls.total_added = ls.pure_added + ls.comment_lines_added
                          + ls.docstring_lines_added + ls.blank_lines_added
    /\ ls.total_removed = ls.pure_removed + ls.comment_lines_removed
                            + ls.docstring_lines_removed + ls.blank_lines_removed

HasChanges(ls) ==
    ls.total_added > 0 \/ ls.total_removed > 0

AllWhitespace(s) ==
    \A i \in 1 .. Len(s) : SubSeq(s, i, i) \in {" ", "\t"}

\* C1: after any prefix of any stream, the accumulator of parse_diff, the
\* frame of process_file and every FileStats pushed so far have each total
\* equal to the sum of its four verdict counters, on both sides.
C1_CounterSum ==
    /\ \A i \in 1 .. Len(current_file_stats) : SumsHold(current_file_stats[i].lang_stats)
    /\ \A i \in 1 .. Len(file) : SumsHold(file[i].lang_stats)
    /\ \A i \in 1 .. Len(stats) : SumsHold(stats[i].lang_stats)

C1_Witness ==
    /\ mode = "diff"
    /\ Len(stats) = 1
    /\ stats[1].lang_stats.total_added >= 1
    /\ current_file_stats # <<>>
    /\ current_file_stats[1].lang_stats.total_removed >= 1
    /\ current_file_stats[1].lang_stats.blank_lines_added >= 1

\* C2: a section that is not binary and has recorded a content line either
\* stays open (nothing is lost from it) or is pushed, as it stands, by the
\* step that closes it, whatever line that step reads.
C2_EverySectionEmitted ==
    [][(/\ mode = "diff"
        /\ pc' # "error"
        /\ current_file_stats # <<>>
        /\ ~is_binary_diff
        /\ HasChanges(current_file_stats[1].lang_stats))
       => \/ /\ current_file_stats' # <<>>
             /\ stats' = stats
             /\ current_file_stats'[1].lang_stats.total_added
                    >= current_file_stats[1].lang_stats.total_added
             /\ current_file_stats'[1].lang_stats.total_removed
                    >= current_file_stats[1].lang_stats.total_removed
          \/ stats' = Append(stats, current_file_stats[1])]_vars

\* C3: in diff mode no FileStats with total_added = 0 and total_removed = 0
\* is in the output.
C3_NoZeroChangeFile ==
    mode = "diff" => \A i \in 1 .. Len(stats) : HasChanges(stats[i].lang_stats)

\* A stream that ends in a header-only section: the accumulator is dropped.
C3_Witness ==
    /\ mode = "diff"
    /\ pc = "done"
    /\ ev = "drop"
    /\ ~is_binary_diff
    /\ n >= 1

\* C4: a hunk header read while a file is open leaves the classifier in the
\* initial state for the tracked language, and the content line read next is
\* given the verdict a fresh classifier gives it.
C4_HunkReset ==
    [][(mode = "diff" /\ pc = "loop")
       => /\ (IsHunkHeader(line') /\ current_file_stats' # <<>>)
                => classifier' = get_classifier(current_file_stats'[1].language)
          /\ (IsHunkHeader(line) /\ current_file_stats # <<>> /\ verdict' # "None")
                => verdict' = Classify(get_classifier(current_file_stats[1].language),
                                       SliceFrom(line', 1)).verdict]_vars

\* The hunk header met a classifier with an open docstring and reset it.
C4_Witness ==
    /\ mode = "diff"
    /\ IsHunkHeader(line)
    /\ current_file_stats # <<>>
    /\ pre.kind = "Python"
    /\ pre.in_triple_double
    /\ classifier = PythonClassifier_new

\* C5: after a "--- <path>" header (path not /dev/null), and after a
\* "+++ <path>" header that opens a file or changes the tracked path, the
\* tracked path is the header's and the classifier is the initial one for its
\* language.
C5_NoStateAcrossFiles ==
    [][(mode = "diff" /\ pc = "loop" /\ ~IsBinaryLine(line'))
       => /\ (IsOldHeader(line') /\ OldPath(line') # "/dev/null")
                => /\ current_file_stats' # <<>>
                   /\ current_file_stats'[1].path = StripPrefix(OldPath(line'), "a/")
                   /\ classifier' = get_classifier(current_file_stats'[1].language)
          /\ (/\ IsNewHeader(line')
              /\ NewPath(line') # "/dev/null"
              /\ \/ current_file_stats = <<>>
                 \/ current_file_stats[1].path # StripPrefix(NewPath(line'), "b/"))
                => /\ current_file_stats' # <<>>
                   /\ current_file_stats'[1].path = StripPrefix(NewPath(line'), "b/")
                   /\ classifier' = get_classifier(current_file_stats'[1].language)]_vars

\* A "+++" header changed the tracked path while a docstring was open.
C5_Witness ==
    /\ mode = "diff"
    /\ IsNewHeader(line)
    /\ pre.kind = "Python"
    /\ pre.in_triple_double
    /\ classifier = CStyleClassifier_new
    /\ current_file_stats # <<>>
    /\ current_file_stats[1].path = "m.c"

\* C6: the nine-line diff of the test yields exactly one FileStats, for
\* test.py, Python, with 2 removed (1 pure, 1 comment) and 2 added (2 pure).
C6_EndToEnd ==
    (mode = "diff" /\ script = TestDiff /\ pc = "done")
        => /\ Len(stats) = 1
           /\ stats[1].path = "test.py"
           /\ stats[1].language = "Python"
           /\ stats[1].lang_stats.total_removed = 2
           /\ stats[1].lang_stats.total_added = 2
           /\ stats[1].lang_stats.pure_removed = 1
           /\ stats[1].lang_stats.pure_added = 2
           /\ stats[1].lang_stats.comment_lines_removed = 1
           /\ stats[1].lang_stats.comment_lines_added = 0

C6_Witness ==
    /\ mode = "diff"
    /\ script = TestDiff
    /\ pc = "done"
    /\ Len(stats) = 1

\* C7: whatever the variant and its state, a line that is empty after
\* trimming whitespace is classified Blank.
C7_BlankPrecedence ==
    (mode = "classify" /\ pc = "returned" /\ AllWhitespace(line)) => verdict = "Blank"

\* A whitespace-only line met an open block comment.
C7_Witness ==
    /\ mode = "classify"
    /\ pc = "returned"
    /\ line = "  "
    /\ pre.kind = "CStyle"
    /\ pre.in_block
    /\ verdict = "Blank"

\* An opening line that is one marker, non-blank body lines without that
\* marker, a line containing the marker, then "x = 1".
RoundTripShape(s) ==
    /\ Len(s) >= 3
    /\ s[1] \in {TripleDouble, TripleSingle}
    /\ \A i \in 2 .. Len(s) - 2 : ~AllWhitespace(s[i]) /\ ~Contains(s[i], s[1])
    /\ Contains(s[Len(s) - 1], s[1])
    /\ s[Len(s)] = "x = 1"

\* C8: a Python classifier fed such a list answers Docstring for every line
\* up to the closing one, has both flags clear afterwards and answers Pure
\* for "x = 1".
C8_DocstringRoundTrip ==
    (mode = "classify" /\ pc = "done" /\ RoundTripShape(script))
        => /\ verdicts = [i \in 1 .. Len(script) |->
                             IF i < Len(script) THEN "Docstring" ELSE "Pure"]
           /\ classifier = PythonClassifier_new

C8_Witness ==
    /\ mode = "classify"
    /\ pc = "done"
    /\ script = <<TripleDouble, "docs", "# c", "x \"\"\"", "x = 1">>
    /\ verdicts = <<"Docstring", "Docstring", "Docstring", "Docstring", "Pure">>

\* What C9 says of a line that opens with marker m, whose flag is f.
OpenerRule(m, f) ==
    /\ verdict = "Docstring"
    /\ classifier[f] <=> (MatchesCount(line, m) = 1)
    /\ MatchesCount(line, m) >= 2
          => /\ classifier = PythonClassifier_new
             /\ Classify(classifier, "x = 1").verdict = "Pure"

\* C9: with no flag set, a line whose trimmed text starts with a triple-quote
\* marker is Docstring, and the marker's flag is set afterwards iff the
\* marker occurs once on the line (occurrences counted without overlap);
\* with two or more, both flags are clear and a code line is Pure.
C9_DocstringOpener ==
    (mode = "classify" /\ pc = "returned" /\ pre = PythonClassifier_new)
        => /\ StartsWith(Trim(line), TripleDouble)
                => OpenerRule(TripleDouble, "in_triple_double") /\ ~classifier.in_triple_single
           /\ StartsWith(Trim(line), TripleSingle)
                => OpenerRule(TripleSingle, "in_triple_single") /\ ~classifier.in_triple_double

\* A one-line docstring, with leading whitespace.
C9_Witness ==
    /\ mode = "classify"
    /\ pc = "returned"
    /\ pre = PythonClassifier_new
    /\ line = " \"\"\"x\"\"\""
    /\ verdict = "Docstring"
    /\ classifier = PythonClassifier_new

\* C10: with in_block false, a line that starts with neither "//" nor "*" and
\* holds an opener and, after it, a closer, is Comment when only whitespace
\* lies before the opener and after that closer, Pure otherwise, and in_block
\* is false afterwards.
C10_InlineBlockComment ==
    LET trimmed == Trim(line)
        opener == Find(trimmed, "/*")
        closer == FindFrom(trimmed, "*/", opener + 2)
    IN
    (/\ mode = "classify" /\ pc = "returned"
     /\ pre = CStyleClassifier_new
     /\ ~StartsWith(trimmed, "//") /\ ~StartsWith(trimmed, "*")
     /\ opener # -1 /\ closer # -1)
        => /\ verdict = IF /\ AllWhitespace(SliceTo(trimmed, opener))
                           /\ AllWhitespace(SliceFrom(trimmed, closer + 2))
                        THEN "Comment" ELSE "Pure"
           /\ classifier = CStyleClassifier_new


\* C11: with in_block set, a non-blank line without a closer is Comment and
\* leaves in_block set; a line with a closer clears in_block and is Pure when
\* something other than whitespace follows the first closer, Comment otherwise.
C11_BlockClose ==
    LET closer == Find(line, "*/") IN
    (/\ mode = "classify" /\ pc = "returned"
     /\ pre = [CStyleClassifier_new EXCEPT !.in_block = TRUE]
     /\ ~AllWhitespace(line))
        => IF closer = -1
           THEN verdict = "Comment" /\ classifier.in_block
           ELSE /\ ~classifier.in_block
                /\ verdict = IF AllWhitespace(SliceFrom(line, closer + 2))
                             THEN "Comment" ELSE "Pure"

\* Code follows the closer of an open block comment.
C11_Witness ==
    /\ mode = "classify"
    /\ pc = "returned"
    /\ pre = [CStyleClassifier_new EXCEPT !.in_block = TRUE]
    /\ line = "x*/ x"
    /\ verdict = "Pure"
    /\ classifier = CStyleClassifier_new

\* C12: with in_block false, a line that starts with neither "//" nor "*" and
\* holds an opener with no closer after it sets in_block, and is Pure when
\* something other than whitespace precedes the opener, Comment otherwise; a
\* closer that lies before the opener is not its closer.
C12_UnterminatedOpener ==
    LET trimmed == Trim(line)
        opener == Find(trimmed, "/*")
    IN
    (/\ mode = "classify" /\ pc = "returned"
     /\ pre = CStyleClassifier_new
     /\ ~StartsWith(trimmed, "//") /\ ~StartsWith(trimmed, "*")
     /\ opener # -1
     /\ FindFrom(trimmed, "*/", opener + 2) = -1)
        => /\ classifier.in_block
           /\ verdict = IF AllWhitespace(SliceTo(trimmed, opener))
                        THEN "Comment" ELSE "Pure"


\* C13: without an open comment, a line with an opener and a closer after it
\* is Comment iff only whitespace lies before the opener and after that
\* closer, Pure otherwise, and opens nothing; a line with an opener and no
\* closer after it sets in_comment and is Comment iff only whitespace precedes
\* the opener. With a comment open, a non-blank line without a closer is
\* Comment and keeps it open; a line with a closer clears in_comment and is
\* Pure iff something other than whitespace follows the closer.
C13_HtmlComment ==
    LET trimmed == Trim(line)
        opener == Find(trimmed, "<!--")
        closer == FindFrom(trimmed, "-->", opener + 4)
        first == Find(trimmed, "-->")
    IN
    (mode = "classify" /\ pc = "returned" /\ pre.kind = "Html")
        => /\ (~pre.in_comment /\ opener # -1 /\ closer # -1)
                => /\ verdict = IF /\ AllWhitespace(SliceTo(trimmed, opener))
                                   /\ AllWhitespace(SliceFrom(trimmed, closer + 3))
                                THEN "Comment" ELSE "Pure"
                   /\ ~classifier.in_comment
           /\ (~pre.in_comment /\ opener # -1 /\ closer = -1)
                => /\ verdict = IF AllWhitespace(SliceTo(trimmed, opener))
                                THEN "Comment" ELSE "Pure"
                   /\ classifier.in_comment
           /\ (pre.in_comment /\ ~AllWhitespace(line) /\ first = -1)
                => verdict = "Comment" /\ classifier.in_comment
           /\ (pre.in_comment /\ first # -1)
                => /\ verdict = IF AllWhitespace(SliceFrom(trimmed, first + 3))
                                THEN "Comment" ELSE "Pure"
                   /\ ~classifier.in_comment

\* The last line of test_html_classifier: code follows the closer.
C13_Witness ==
    /\ mode = "classify"
    /\ pc = "returned"
    /\ pre = [HtmlClassifier_new EXCEPT !.in_comment = TRUE]
    /\ line = "end --> trailing"
    /\ verdict = "Pure"
    /\ classifier = HtmlClassifier_new


\* C14: a Ruby block opens on the lines, and only on the lines, whose trimmed
\* text has "=begin" at its start, and closes on the lines, and only on the
\* lines, whose trimmed text has "=end" at its start; every non-blank line
\* classified while the block is open, the "=end" line included, is Comment;
\* outside a block a "#" line is Comment and a non-blank line that is neither
\* is Pure.
C14_RubyBlock ==
    LET trimmed == Trim(line) IN
    (/\ mode = "classify" /\ pc = "returned"
     /\ pre.kind = "Ruby" /\ ~AllWhitespace(line))
        => IF pre.in_block
           THEN /\ verdict = "Comment"
                /\ classifier.in_block <=> ~StartsWith(trimmed, "=end")
           ELSE /\ classifier.in_block <=> StartsWith(trimmed, "=begin")
                /\ verdict = IF StartsWith(trimmed, "#") \/ StartsWith(trimmed, "=begin")
                             THEN "Comment" ELSE "Pure"

\* The closing line of test_ruby_classifier.
C14_Witness ==
    /\ mode = "classify"
    /\ pc = "returned"
    /\ pre = [RubyClassifier_new EXCEPT !.in_block = TRUE]
    /\ line = "=end"
    /\ verdict = "Comment"
    /\ classifier = RubyClassifier_new


\* The comment and docstring markers of a variant.
Markers(kind) ==
    CASE kind = "Python" -> {"#", TripleDouble, TripleSingle}
      [] kind = "CStyle" -> {"//", "/*", "*/"}
      [] kind = "Html" -> {"<!--", "-->"}
      [] kind = "Ruby" -> {"#", "=begin", "=end"}
      [] kind = "Shell" -> {"#"}
      [] kind = "Default" -> {}

\* C15: classify returns one of the four verdicts for every variant, state and
\* line, wherever the markers stand on the line (no slice is out of range); in
\* the initial state a non-blank line holding none of the variant's markers
\* (for C-style: and no leading "*") is Pure; Default answers Pure for every
\* non-blank line, Shell answers Comment iff the trimmed line starts with "#".
C15_Total ==
    (mode = "classify" /\ pc = "returned")
        => /\ verdict \in LineType
           /\ (/\ pre \in {get_classifier(lang) : lang \in LanguageTags}
               /\ ~AllWhitespace(line)
               /\ \A m \in Markers(pre.kind) : ~Contains(line, m)
               /\ pre.kind = "CStyle" => ~StartsWith(Trim(line), "*"))
                => verdict = "Pure" /\ classifier = pre
           /\ (pre.kind = "Default" /\ ~AllWhitespace(line)) => verdict = "Pure"
           /\ (pre.kind = "Shell" /\ ~AllWhitespace(line))
                => verdict = IF StartsWith(Trim(line), "#") THEN "Comment" ELSE "Pure"

\* A closer that ends before the opener starts: every slice is still in range.
C15_Witness ==
    /\ mode = "classify"
    /\ pc = "returned"
    /\ pre = CStyleClassifier_new
    /\ line = "x*//*"
    /\ verdict = "Pure"


\* A step of the loop of parse_diff that reads a line.
ReadsLine ==
    mode = "diff" /\ pc = "loop" /\ n' = n + 1

IsHeader(l) ==
    IsOldHeader(l) \/ IsNewHeader(l)

\* C16: a "Binary files ... differ" line pushes nothing and leaves no section
\* to push; every "+" or "-" line read after it and before the next file
\* header is left unclassified and changes no counter; the first content line
\* after a header that left a file open is counted for that file.
C16_BinarySection ==
    [][ReadsLine
       => /\ IsBinaryLine(line')
                => stats' = stats /\ current_file_stats' = <<>> /\ is_binary_diff'
          /\ (is_binary_diff /\ current_file_stats = <<>>
               /\ (IsAddedLine(line') \/ IsRemovedLine(line')))
                => /\ verdict' = "None"
                   /\ UNCHANGED <<classifier, current_file_stats, stats, is_binary_diff>>
          /\ (IsHeader(line) /\ current_file_stats # <<>> /\ IsAddedLine(line'))
                => current_file_stats'[1].lang_stats.total_added
                       = current_file_stats[1].lang_stats.total_added + 1
          /\ (IsHeader(line) /\ current_file_stats # <<>> /\ IsRemovedLine(line'))
                => current_file_stats'[1].lang_stats.total_removed
                       = current_file_stats[1].lang_stats.total_removed + 1]_vars

\* C17: "--- /dev/null" leaves no file open, and a "+++ b/<path>" read next
\* opens a file with that path and its language; "+++ /dev/null" read after
\* "--- a/<path>" keeps the file the "---" header opened; in a section that is
\* not binary, a "-" line read after "+++ /dev/null" is counted under the old
\* path and a "+" line read after "+++ b/<path>" under the new one.
C17_CreateDelete ==
    [][ReadsLine
       => /\ line' = "--- /dev/null" => current_file_stats' = <<>>
          /\ (line = "--- /dev/null" /\ StartsWith(line', "+++ b/"))
                => current_file_stats' =
                       <<FileStats(SliceFrom(line', 6),
                                   to_string(from_path(SliceFrom(line', 6))),
                                   LangStats_default)>>
          /\ (StartsWith(line, "--- a/") /\ line' = "+++ /dev/null")
                => /\ current_file_stats # <<>>
                   /\ current_file_stats[1].path = SliceFrom(line, 6)
                   /\ current_file_stats' = current_file_stats
          /\ (/\ line = "+++ /dev/null" /\ current_file_stats # <<>>
              /\ ~is_binary_diff /\ IsRemovedLine(line'))
                => /\ current_file_stats'[1].path = current_file_stats[1].path
                   /\ current_file_stats'[1].lang_stats.total_removed
                          = current_file_stats[1].lang_stats.total_removed + 1
          /\ (StartsWith(line, "+++ b/") /\ ~is_binary_diff /\ IsAddedLine(line'))
                => /\ current_file_stats'[1].path = SliceFrom(line, 6)
                   /\ current_file_stats'[1].lang_stats.total_added
                          = current_file_stats[1].lang_stats.total_added + 1]_vars

\* A deleted file: "+++ /dev/null" is the second line of the stream and the
\* file its first line opened is still open.
C17_Witness ==
    /\ mode = "diff"
    /\ n = 2
    /\ Len(warnings) = 1
    /\ line = "+++ /dev/null"
    /\ ~is_binary_diff
    /\ current_file_stats = <<FileStats("m.c", "C", LangStats_default)>>

\* C18: while no file is open, a line that is not a "--- " or "+++ " header
\* changes neither the output nor any counter, leaves no file open, and
\* parse_diff goes on to the next line.
C18_SeekingIgnores ==
    [][(ReadsLine /\ current_file_stats = <<>> /\ ~IsHeader(line'))
       => /\ stats' = stats
          /\ current_file_stats' = <<>>
          /\ verdict' = "None"
          /\ pc' = "loop"]_vars

\* An added line was read before any header.
C18_Witness ==
    /\ mode = "diff"
    /\ pc = "loop"
    /\ n = 1
    /\ line = "+x = 1"
    /\ current_file_stats = <<>>
    /\ stats = <<>>

\* C19: a line beginning with a space changes no counter and no classifier;
\* no call of parse_diff writes the warning more than once; a call starts
\* with the flag clear, whatever the calls before it did.
C19_ContextWarning ==
    [][mode = "diff"
       => /\ \A k \in 1 .. Len(warnings') : warnings'[k] <= 1
          /\ (ReadsLine /\ StartsWith(line', " "))
                => UNCHANGED <<classifier, current_file_stats, stats>>
          /\ Len(warnings') > Len(warnings) => ~context_warning_printed']_vars

\* Two calls, a warning in each.
C19_Witness ==
    /\ mode = "diff"
    /\ warnings = <<1, 1>>


NothingRemoved(ls) ==
    /\ ls.total_removed = 0 /\ ls.pure_removed = 0 /\ ls.comment_lines_removed = 0
    /\ ls.docstring_lines_removed = 0 /\ ls.blank_lines_removed = 0
    /\ ls.code_words_removed = 0

\* C20: in snapshot mode the removed counters of every file, open or pushed,
\* are 0; a file opens with total_added = 0 and the initial classifier of its
\* language, every line read adds 1 to total_added and is classified by the
\* classifier as the line before left it, so an open docstring or block
\* comment stays open on every line without its closer; the file is pushed
\* as it stands when it ends.
C20_SnapshotAddsOnly ==
    [][mode = "snapshot"
       => /\ \A i \in 1 .. Len(file') : NothingRemoved(file'[i].lang_stats)
          /\ \A i \in 1 .. Len(stats') : NothingRemoved(stats'[i].lang_stats)
          /\ (file = <<>> /\ file' # <<>>)
                => /\ file'[1].lang_stats.total_added = 0
                   /\ classifier' = get_classifier(file'[1].language)
          /\ (file # <<>> /\ file' # <<>>)
                => /\ file'[1].lang_stats.total_added = file[1].lang_stats.total_added + 1
                   /\ verdict' = Classify(classifier, line').verdict
                   /\ classifier' = Classify(classifier, line').classifier
                   /\ (/\ classifier.kind = "Python" /\ classifier.in_triple_double
                       /\ ~Contains(line', TripleDouble))
                         => /\ classifier'.in_triple_double
                            /\ verdict' \in {"Docstring", "Blank"}
                   /\ (/\ classifier.kind = "CStyle" /\ classifier.in_block
                       /\ ~Contains(line', "*/"))
                         => /\ classifier'.in_block
                            /\ verdict' \in {"Comment", "Blank"}
          /\ (file # <<>> /\ file' = <<>> /\ stats' # stats)
                => stats' = Append(stats, file[1])]_vars

\* The docstring opened on the first line of a file is still open on its
\* third: the code line is counted as Docstring.
C20_Witness ==
    /\ mode = "snapshot"
    /\ file # <<>>
    /\ file[1].path = "./t.py"
    /\ file[1].lang_stats.total_added = 3
    /\ file[1].lang_stats.docstring_lines_added = 2
    /\ file[1].lang_stats.blank_lines_added = 1
    /\ line = "x = 1"
    /\ verdict = "Docstring"
    /\ classifier.in_triple_double

\* A step of analyze_files that takes up the next path.
TakesEntry ==
    mode = "snapshot" /\ pc = "loop" /\ file = <<>> /\ n' = n + 1

\* C21: in snapshot mode no FileStats of the output has total_added and
\* total_removed both 0.
C21_SnapshotNoZeroChangeFile ==
    mode = "snapshot" => \A i \in 1 .. Len(stats) : HasChanges(stats[i].lang_stats)

\* C22: in snapshot mode a file that opens and holds a zero byte among its
\* first 1024 bytes is turned away when analyze_files takes it up: no frame
\* opens, no line is classified and nothing is pushed; an empty file, and a
\* file whose first zero byte lies at offset 1024 or later, are opened.
C22_BinarySkip ==
    [][(TakesEntry /\ entry'.exists /\ entry'.readable)
       => /\ (entry'.nul >= 0 /\ entry'.nul < 1024)
                => (file' = <<>> /\ stats' = stats /\ verdict' = "None")
          /\ entry'.size = 0 => file' # <<>>
          /\ entry'.nul >= 1024 => file' # <<>>]_vars

\* A file with a zero byte at offset 1024 has been opened and a line of it
\* has been counted.
C22_Witness ==
    /\ mode = "snapshot"
    /\ entry.nul = 1024
    /\ file # <<>>
    /\ file[1].lang_stats.total_added = 1
    /\ line = "x = 1"

\* C23: in snapshot mode, when a file cannot be opened, or a read of it fails
\* after it opened, one warning is written for it, nothing is pushed for it,
\* the entries already pushed stay, and analyze_files goes on to the next
\* path.
C23_PerFileErrorIsolation ==
    [][(\/ TakesEntry /\ entry'.exists /\ ~entry'.readable
        \/ mode = "snapshot" /\ file # <<>> /\ ev' = "drop")
       => /\ warnings'[Len(warnings')] = warnings[Len(warnings)] + 1
          /\ file' = <<>>
          /\ stats' = stats
          /\ pc' = "loop"]_vars

\* C24: in diff mode, when git fails no line has been or will be read, and
\* the only step left is the exit with status 1; when a read of the stream
\* fails, parse_diff returns at once (the failed read counts no line and
\* pushes nothing) and the only step main takes from there is the exit with
\* status 1, with no line read in between; the report is printed only after
\* parse_diff returned Ok.
C24_DiffFailuresFatal ==
    [][mode = "diff"
       => /\ pc' = "git_failed" => (n = 0 /\ n' = 0 /\ stats' = <<>>)
          /\ pc \in {"git_failed", "exit1"}
                => (pc' = "exit1" /\ n' = n /\ stats' = stats)
          /\ (pc = "loop" /\ pc' = "error") => (n' = n /\ stats' = stats)
          /\ (pc = "error" /\ Len(warnings') = Len(warnings))
                => (pc' = "exit1" /\ n' = n /\ stats' = stats)
          /\ pc' = "reported" => pc = "done"]_vars

\* main has exited with status 1 after a stream that failed at its third
\* read.
C24_Witness ==
    /\ mode = "diff"
    /\ pc = "exit1"
    /\ n = 2
    /\ Len(warnings) = 1

\* C26: during a call of parse_diff every step keeps each entry of the
\* vector as and where it is, entries the caller handed in included, and adds
\* at most one entry, at the end: the section that was open before the step.
\* Sections are open one at a time, so the entries stand in the order of the
\* sections in the stream.
C26_AppendOnly ==
    [][(mode = "diff" /\ Len(warnings') = Len(warnings))
       => /\ Len(stats') \in {Len(stats), Len(stats) + 1}
          /\ \A i \in 1 .. Len(stats) : stats'[i] = stats[i]
          /\ Len(stats') = Len(stats) + 1
                => /\ current_file_stats # <<>>
                   /\ stats'[Len(stats')] = current_file_stats[1]]_vars

\* The second call was handed the vector with the entry of the first call,
\* and its stream ended in a section that was pushed behind that entry.
C26_Witness ==
    /\ mode = "diff"
    /\ pc = "done"
    /\ Len(warnings) = 2
    /\ ev = "emit"
    /\ n = 4
    /\ Len(stats) = 2
    /\ stats[1].path = "t.py"
    /\ stats[1].lang_stats.total_removed = 1
    /\ stats[2].path = "m.c"
    /\ stats[2].lang_stats.total_added = 1

\* C28: a "+++ <path>" header (path not /dev/null) read while a file is open
\* pushes nothing and leaves the twelve counters of the open file as they
\* are; when its path, less a leading "b/", differs from the tracked path,
\* the tracked path becomes that path, the language the one resolved from it
\* and the classifier the initial one of that language; when it is the
\* tracked path, the accumulator and the classifier stay as they are.
C28_PathChange ==
    [][(/\ ReadsLine
        /\ current_file_stats # <<>>
        /\ IsNewHeader(line')
        /\ NewPath(line') # "/dev/null")
       => /\ stats' = stats
          /\ current_file_stats' # <<>>
          /\ current_file_stats'[1].lang_stats = current_file_stats[1].lang_stats
          /\ IF StripPrefix(NewPath(line'), "b/") # current_file_stats[1].path
             THEN /\ current_file_stats'[1].path = StripPrefix(NewPath(line'), "b/")
                  /\ current_file_stats'[1].language =
                         to_string(from_path(current_file_stats'[1].path))
                  /\ classifier' = get_classifier(current_file_stats'[1].language)
             ELSE /\ current_file_stats' = current_file_stats
                  /\ classifier' = classifier]_vars

\* A "+++ b/m.c" header was read while t.py was open with a docstring line
\* counted: the section is now m.c, C, with that line still counted.
C28_Witness ==
    /\ mode = "diff"
    /\ line = "+++ b/m.c"
    /\ pre.kind = "Python"
    /\ pre.in_triple_double
    /\ classifier = CStyleClassifier_new
    /\ current_file_stats # <<>>
    /\ current_file_stats[1].path = "m.c"
    /\ current_file_stats[1].language = "C"
    /\ current_file_stats[1].lang_stats.docstring_lines_added = 1

Bump(v, w) ==
    IF v = w THEN 1 ELSE 0

\* C27: while a file that is not binary is open, a line that starts with "+"
\* and not with "+++" is classified once, as its text after the marker, by
\* the classifier as the line before left it; total_added and the one added
\* counter of the verdict grow by 1; code_words_added grows by the word count
\* of that text for a Pure verdict and by 0 otherwise; the removed side, the
\* path and the language stay.  A line that starts with "-" and not with
\* "---" does the same on the removed side and leaves the added side.
C27_ContentLineAccounting ==
    [][(/\ mode = "diff" /\ pc = "loop" /\ n' = n + 1
        /\ current_file_stats # <<>>
        /\ ~is_binary_diff
        /\ \/ StartsWith(line', "+") /\ ~StartsWith(line', "+++")
           \/ StartsWith(line', "-") /\ ~StartsWith(line', "---"))
       => LET text == SubSeq(line', 2, Len(line'))
              r == Classify(classifier, text)
              v == r.verdict
              words == IF v = "Pure" THEN count_words(text) ELSE 0
              old == current_file_stats[1].lang_stats
              plus == StartsWith(line', "+")
              a == IF plus THEN 1 ELSE 0
              b == IF plus THEN 0 ELSE 1
          IN
          /\ verdict' = v
          /\ v \in {"Pure", "Comment", "Docstring", "Blank"}
          /\ classifier' = r.classifier
          /\ stats' = stats
          /\ current_file_stats' =
                <<[current_file_stats[1] EXCEPT !.lang_stats =
                    [total_added |-> old.total_added + a,
                     pure_added |-> old.pure_added + a * Bump(v, "Pure"),
                     comment_lines_added |->
                         old.comment_lines_added + a * Bump(v, "Comment"),
                     docstring_lines_added |->
                         old.docstring_lines_added + a * Bump(v, "Docstring"),
                     blank_lines_added |-> old.blank_lines_added + a * Bump(v, "Blank"),
                     code_words_added |-> old.code_words_added + a * words,
                     total_removed |-> old.total_removed + b,
                     pure_removed |-> old.pure_removed + b * Bump(v, "Pure"),
                     comment_lines_removed |->
                         old.comment_lines_removed + b * Bump(v, "Comment"),
                     docstring_lines_removed |->
                         old.docstring_lines_removed + b * Bump(v, "Docstring"),
                     blank_lines_removed |->
                         old.blank_lines_removed + b * Bump(v, "Blank"),
                     code_words_removed |-> old.code_words_removed + b * words]]>>]_vars

\* The added line " y = f( 2 )" of w.py has been counted after three
\* docstring lines and a blank one: five words of code.
C27_Witness ==
    /\ mode = "diff"
    /\ script = VerdictsDiff
    /\ line = "+ y = f( 2 )"
    /\ verdict = "Pure"
    /\ current_file_stats # <<>>
    /\ current_file_stats[1].lang_stats.total_added = 5
    /\ current_file_stats[1].lang_stats.docstring_lines_added = 3
    /\ current_file_stats[1].lang_stats.blank_lines_added = 1
    /\ current_file_stats[1].lang_stats.pure_added = 1
    /\ current_file_stats[1].lang_stats.code_words_added = 5
    /\ current_file_stats[1].lang_stats.total_removed = 0

\* The table of extensions and tags.
ExtensionTable ==
    {<<"py", "Python">>, <<"js", "JavaScript">>, <<"jsx", "JavaScript">>,
     <<"mjs", "JavaScript">>, <<"ts", "TypeScript">>, <<"tsx", "TypeScript">>,
     <<"html", "HTML">>, <<"htm", "HTML">>, <<"css", "CSS">>, <<"scss", "CSS">>,
     <<"c", "C">>, <<"h", "C">>, <<"cpp", "C++">>, <<"hpp", "C++">>, <<"cc", "C++">>,
     <<"cxx", "C++">>, <<"hh", "C++">>, <<"cs", "C#">>, <<"java", "Java">>,
     <<"go", "Go">>, <<"php", "PHP">>, <<"rb", "Ruby">>, <<"swift", "Swift">>,
     <<"kt", "Kotlin">>, <<"kts", "Kotlin">>, <<"scala", "Scala">>, <<"sc", "Scala">>,
     <<"sh", "Shell">>, <<"bash", "Shell">>, <<"zsh", "Shell">>,
     <<"ps1", "PowerShell">>, <<"psm1", "PowerShell">>, <<"vue", "Vue">>}

\* The final extension of path is e: the path ends with "." and e, and that
\* dot is not the first character of the file name.
FinalExtensionIs(path, e) ==
    /\ Len(path) > Len(e) + 1
    /\ SubSeq(path, Len(path) - Len(e), Len(path)) = "." \o e
    /\ SubSeq(path, Len(path) - Len(e) - 1, Len(path) - Len(e) - 1) # "/"

\* C25: the tag resolved for a path is the one the table lists for its final
\* extension, spelled exactly as listed, and Other when the table lists none
\* for it: another extension, the same letters in another case, no
\* extension, Dockerfile and Makefile.  The tag depends on the path only,
\* whatever the caller did before.
C25_LanguageResolution ==
    pc = "resolved"
        => /\ \A row \in ExtensionTable :
                 FinalExtensionIs(line, row[1]) => verdict = row[2]
           /\ (\A row \in ExtensionTable : ~FinalExtensionIs(line, row[1]))
                 => verdict = "Other"

\* src/x.tar.py resolved to Python after the caller had left a C-style
\* classifier inside a block comment.
C25_Witness ==
    /\ pc = "resolved"
    /\ line = "src/x.tar.py"
    /\ verdict = "Python"
    /\ classifier.kind = "CStyle"
    /\ classifier.in_block

RegistryTable ==
    {<<"Python", "Python">>, <<"Ruby", "Ruby">>, <<"HTML", "Html">>, <<"Vue", "Html">>,
     <<"Shell", "Shell">>, <<"PowerShell", "Shell">>, <<"JavaScript", "CStyle">>,
     <<"TypeScript", "CStyle">>, <<"C", "CStyle">>, <<"C++", "CStyle">>,
     <<"C#", "CStyle">>, <<"Java", "CStyle">>, <<"Go", "CStyle">>, <<"PHP", "CStyle">>,
     <<"Swift", "CStyle">>, <<"Kotlin", "CStyle">>, <<"Scala", "CStyle">>,
     <<"CSS", "CStyle">>}

\* C29: the classifier get_classifier returns is of the kind listed for the
\* tag, Default for Other and for a tag that is not listed, and none of its
\* flags is set, also when the instance the caller got before, for the same
\* tag or another, was left inside a block or a docstring.
C29_Registry ==
    pc = "got"
        => /\ \A row \in RegistryTable : line = row[1] => classifier.kind = row[2]
           /\ (\A row \in RegistryTable : line # row[1]) => classifier.kind = "Default"
           /\ \A f \in DOMAIN classifier \ {"kind"} : classifier[f] = FALSE

\* A second instance for Vue was returned in its initial state while the
\* one before it had been left inside a comment.
C29_Witness ==
    /\ pc = "got"
    /\ line = "Vue"
    /\ pre.kind = "Html"
    /\ pre.in_comment
    /\ classifier = HtmlClassifier_new

\* C30: a Python classifier that started from PythonClassifier::new() never
\* has in_triple_double and in_triple_single both set, whatever lines it was
\* given.
C30_PythonFlagsExclusive ==
    classifier.kind = "Python"
        => ~(classifier.in_triple_double /\ classifier.in_triple_single)

\* Inside a docstring opened by three double quotes a line that begins with
\* three single quotes was classified: the open region stays the one it was
\* and no second region opens.
C30_Witness ==
    /\ mode = "classify"
    /\ pre.kind = "Python"
    /\ pre.in_triple_double
    /\ StartsWith(Trim(line), TripleSingle)
    /\ verdict = "Docstring"
    /\ classifier.in_triple_double
    /\ ~classifier.in_triple_single

\* C31: a Python classifier given a line that is not blank: with a flag set
\* the verdict is Docstring, whatever the line starts with, the flag is
\* cleared exactly when the line holds the marker of that flag, and the other
\* flag stays clear; with no flag set a line whose trimmed text starts with
\* "#" is Comment and sets no flag, whatever it holds, and a line whose
\* trimmed text starts with three double quotes is taken by the opener test
\* for double quotes: it never sets in_triple_single.
C31_PythonPrecedence ==
    (pc = "returned" /\ pre.kind = "Python" /\ ~AllWhitespace(line))
        => /\ pre.in_triple_double
                => /\ verdict = "Docstring"
                   /\ classifier.in_triple_double = ~Contains(line, TripleDouble)
                   /\ ~classifier.in_triple_single
           /\ pre.in_triple_single
                => /\ verdict = "Docstring"
                   /\ classifier.in_triple_single = ~Contains(line, TripleSingle)
                   /\ ~classifier.in_triple_double
           /\ (~pre.in_triple_double /\ ~pre.in_triple_single)
                => /\ StartsWith(Trim(line), "#")
                        => (verdict = "Comment" /\ classifier = pre)
                   /\ StartsWith(Trim(line), TripleDouble)
                        => (verdict = "Docstring" /\ ~classifier.in_triple_single)

\* Inside a region opened by three double quotes, a line that starts with
\* "#" and holds three single quotes was classified Docstring and the region
\* is still open.
C31_Witness ==
    /\ pc = "returned"
    /\ pre.kind = "Python"
    /\ pre.in_triple_double
    /\ StartsWith(line, "#")
    /\ Contains(line, TripleSingle)
    /\ verdict = "Docstring"
    /\ classifier.in_triple_double

\* C32: a C-style classifier with no block open, given a line whose trimmed
\* text starts with "//" or with "*", answers Comment and still has no block
\* open, also when the line holds "/*".
C32_CStylePrefixes ==
    (/\ pc = "returned"
     /\ pre.kind = "CStyle"
     /\ ~pre.in_block
     /\ StartsWith(Trim(line), "//") \/ StartsWith(Trim(line), "*"))
        => (verdict = "Comment" /\ ~classifier.in_block)

\* A line that starts with "//" and goes on to hold "/*" was classified
\* outside a block: Comment, and no block is open.
C32_Witness ==
    /\ pc = "returned"
    /\ pre.kind = "CStyle"
    /\ ~pre.in_block
    /\ StartsWith(line, "//")
    /\ Contains(line, "/*")
    /\ ~Contains(line, "*/")
    /\ verdict = "Comment"
    /\ ~classifier.in_block

\* C33: an added line read right after a removed line of the same open file
\* gets the verdict it would get had the removed line not been in the stream:
\* the verdict of the classifier as it was before the removed line (pre, in
\* the state the removed line left) on the text of the added line.
C33_AddedIndependentOfRemoved ==
    [][(/\ ReadsLine
        /\ current_file_stats # <<>>
        /\ ~is_binary_diff
        /\ IsRemovedLine(line)
        /\ IsAddedLine(line'))
       => verdict' = Classify(pre, SliceFrom(line', 1)).verdict]_vars

\* C34: after every step of parse_diff that leaves a file open, the tracked
\* language is the tag of the language resolved from the tracked path and the
\* classifier is of the kind the registry gives for that tag; a hunk header
\* read while a file is open leaves the kind of the classifier as it was.
C34_ScannerConsistency ==
    [][(mode = "diff" /\ current_file_stats' # <<>>)
       => /\ current_file_stats'[1].language =
                 to_string(from_path(current_file_stats'[1].path))
          /\ classifier'.kind = get_classifier(current_file_stats'[1].language).kind
          /\ (ReadsLine /\ current_file_stats # <<>> /\ IsHunkHeader(line'))
                => classifier'.kind = classifier.kind]_vars

\* A hunk header was read while m.c was open inside a block comment: the
\* classifier is again the initial C-style one.
C34_Witness ==
    /\ mode = "diff"
    /\ IsHunkHeader(line)
    /\ current_file_stats # <<>>
    /\ current_file_stats[1].path = "m.c"
    /\ current_file_stats[1].language = "C"
    /\ pre.kind = "CStyle"
    /\ pre.in_block
    /\ classifier = CStyleClassifier_new

WordsDominate(ls) ==
    /\ ls.code_words_added >= ls.pure_added
    /\ ls.code_words_removed >= ls.pure_removed
    /\ \A f \in DOMAIN ls : ls[f] >= 0

NoCounterDecreases(old, new) ==
    \A f \in DOMAIN old : new[f] >= old[f]

\* C35: after every step, in both modes, the accumulator of parse_diff, the
\* frame of process_file and every FileStats pushed have code_words_added >=
\* pure_added, code_words_removed >= pure_removed and no counter below 0; and
\* a step that leaves the same section open (any line but a "--- " header in
\* diff mode, any line of the file in snapshot mode) decreases none of the
\* twelve counters.
C35_WordsDominate ==
    [][/\ \A i \in 1 .. Len(current_file_stats') :
             WordsDominate(current_file_stats'[i].lang_stats)
       /\ \A i \in 1 .. Len(file') : WordsDominate(file'[i].lang_stats)
       /\ \A i \in 1 .. Len(stats') : WordsDominate(stats'[i].lang_stats)
       /\ (/\ ReadsLine /\ ~IsOldHeader(line')
           /\ current_file_stats # <<>> /\ current_file_stats' # <<>>)
             => NoCounterDecreases(current_file_stats[1].lang_stats,
                                   current_file_stats'[1].lang_stats)
       /\ (mode = "snapshot" /\ file # <<>> /\ file' # <<>>)
             => NoCounterDecreases(file[1].lang_stats, file'[1].lang_stats)]_vars

\* m.c has one removed line of one word, counted Pure, and one added line of
\* three words.
C35_Witness ==
    /\ mode = "diff"
    /\ current_file_stats # <<>>
    /\ current_file_stats[1].path = "m.c"
    /\ current_file_stats[1].lang_stats.pure_removed = 1
    /\ current_file_stats[1].lang_stats.code_words_removed = 1
    /\ current_file_stats[1].lang_stats.pure_added = 1
    /\ current_file_stats[1].lang_stats.code_words_added = 3

\* C36: a classifier of any kind, in any state it can reach, given a line of
\* white space only, answers Blank and is left exactly as it was.
C36_BlankKeepsState ==
    (pc = "returned" /\ AllWhitespace(line))
        => (verdict = "Blank" /\ classifier = pre)

\* A line of three spaces was classified inside an open HTML comment: the
\* comment is still open.
C36_Witness ==
    /\ pc = "returned"
    /\ line = "   "
    /\ pre.kind = "Html"
    /\ pre.in_comment
    /\ verdict = "Blank"
    /\ classifier.in_comment

\* C37: for every path, the tag detect_language returns is the tag
\* Language::from_path renders for the same path.
C37_ResolversAgree ==
    pc = "detected" => verdict = to_string(from_path(line))

RECURSIVE Total(_, _, _)
Total(fs, field, i) ==
    IF i = 0 THEN 0 ELSE Total(fs, field, i - 1) + fs[i].lang_stats[field]

\* The failure the thresholds call for, tested in the order noise ratio,
\* minimum of net pure lines, decrease of net pure lines; "Ok" when none.
Gate(fs, a) ==
    LET added == Total(fs, "total_added", Len(fs))
        removed == Total(fs, "total_removed", Len(fs))
        pure == Total(fs, "pure_added", Len(fs)) + Total(fs, "pure_removed", Len(fs))
        net == Total(fs, "pure_added", Len(fs)) - Total(fs, "pure_removed", Len(fs))
    IN
    IF /\ a.max_noise_ratio # <<>>
       /\ added + removed # 0
       /\ (added + removed - pure) * a.max_noise_ratio[1][2]
              > a.max_noise_ratio[1][1] * (added + removed)
    THEN "NoiseRatioExceeded"
    ELSE IF a.min_pure_lines # <<>> /\ net < a.min_pure_lines[1] THEN "MinPureLines"
    ELSE IF a.fail_on_decrease /\ net < 0 THEN "PureLinesDecreased"
    ELSE "Ok"

\* C38: check_thresholds is called only after the report was printed; what
\* it returns is the first failure in the order noise ratio (not tested when
\* the sums of added and removed lines are both 0), min_pure_lines against
\* the sum of pure_added less the sum of pure_removed, fail_on_decrease; it
\* returns Ok when no threshold is set; the process exits with 2 exactly
\* when a failure was returned and warn_only is not set.
C38_ThresholdGating ==
    [][pc' \in {"exit0", "exit2"}
       => /\ pc = "reported"
          /\ verdict' = Gate(stats', args')
          /\ (/\ args'.max_noise_ratio = <<>>
              /\ args'.min_pure_lines = <<>>
              /\ ~args'.fail_on_decrease) => verdict' = "Ok"
          /\ pc' = "exit2" <=> (verdict' # "Ok" /\ ~args'.warn_only)]_vars

\* With --min-pure-lines 0 and --fail-on-decrease set and more pure lines
\* removed than added, the failure reported is the one of min_pure_lines, and
\* the process exits with 2.
C38_Witness ==
    /\ pc = "exit2"
    /\ args.max_noise_ratio = << <<1, 2>> >>
    /\ args.min_pure_lines = <<0>>
    /\ args.fail_on_decrease
    /\ Len(stats) = 2
    /\ verdict = "MinPureLines"
====
